---- MODULE Spec2Model ----
(***************************************************************************)
(* Verification model of the raiden change-detection / dedup / reply       *)
(* orchestration engine:                                                   *)
(*   - backend/rate_limiter.py     (window + cooldown rate limiter)        *)
(*   - backend/websockets.py       (ConnectionManager rooms and fan-out)   *)
(*   - worker/platforms/instagram.py (listener loop, history fetch guard,  *)
(*     dedup tracker, reply task) and the read path of backend/main.py     *)
(*                                                                         *)
(* The specifications share the variables of this module:                  *)
(*   Spec     listener loop and reply spawning, viewers come and go        *)
(*   SpecH    listener loop next to the read path (overlapping fetches)    *)
(*   SpecE    listener loop whose enrollment may fail in the database      *)
(*   SpecI    listener loop while the inbox list is reordered              *)
(*   SpecB    listener loop while one chat receives a burst of messages    *)
(*   SpecNM   new-message pass on histories with and without message ids   *)
(*   SpecRL   rate limiter driven by reply tasks, the assistant, the clock *)
(*   SpecWin  rate limiter while the clock runs across the end of a window *)
(*   SpecTask reply task for every declared outcome of the generation call *)
(*   SpecWS   ConnectionManager under concurrent join / leave / broadcast  *)
(*   SpecSet  settings endpoints, tracked-chat cache, start and close      *)
(*   SpecStop shutdown of the server, with fairness of the bounded waits   *)
(*   SpecDep  settings endpoints with true, false, null and unset fields   *)
(*   SpecSend reply tasks fetching and sending next to the read path       *)
(*   SpecPar  listener loop together with the reply tasks it spawns        *)
(*   SpecListen  listen() called by the auto-start and by login requests   *)
(*   SpecTyping  running loop while a peer starts and stops typing         *)
(*   SpecTaskLive  reply tasks with fairness of their bounded awaits       *)
(*   SpecSig  running loop with fairness, change signals at any point      *)
(***************************************************************************)
EXTENDS Integers, Sequences, FiniteSets, TLC

\* ------------------------------------------------------------------------
\* Bounds of the model (not program constants)
\* ------------------------------------------------------------------------
MaxTime == 4        \* the clock runs over 0..MaxTime hours
MaxMsgs == 2        \* messages that exist in the remote chats, in total
MaxVersion == 2     \* history fetches issued (cap of history_version)
MaxTasks == 2       \* reply tasks spawned
MaxBurst == 3       \* messages in total where one chat receives a burst
MaxClock == 7       \* the clock where it runs across the end of a window
MaxBcasts == 2      \* broadcast calls started in the fan-out specification
MaxAsks == 1        \* POST /assistant/ask requests received
MaxFetches == 3     \* get_chat_history calls where reply tasks fetch their context

Chats == {"a", "b"}

\* the chats the settings table may hold a row for: the chats of the inbox
\* and one more chat the frontend knows
SettingsChats == Chats \cup {"c"}
Subs == {"s1", "s2"}

\* ------------------------------------------------------------------------
\* Rate limiter: backend/rate_limiter.py
\* ------------------------------------------------------------------------
Tiers == {"free", "paid"}

\* RATE_LIMITS table
FreeWindowHours == 4
FreeMaxRequests == 26
FreeCooldownHours == 2
PaidWindowHours == 6
PaidMaxRequests == 80
PaidCooldownHours == 1

\* get_limits_for_tier: unknown tiers fall back to the free limits
get_limits_for_tier(tier) ==
    IF tier = "paid"
    THEN [window_hours |-> PaidWindowHours, max_requests |-> PaidMaxRequests,
          cooldown_hours |-> PaidCooldownHours]
    ELSE [window_hours |-> FreeWindowHours, max_requests |-> FreeMaxRequests,
          cooldown_hours |-> FreeCooldownHours]

\* cooldown_until = None
NoTime == -1

\* the single RateLimitState row (id = 1); exists = FALSE before it is created
NoRow == [exists |-> FALSE, request_count |-> 0, window_start |-> 0,
          cooldown_until |-> NoTime]

RateRow(cnt, ws, cd) ==
    [exists |-> TRUE, request_count |-> cnt, window_start |-> ws,
     cooldown_until |-> cd]

\* a check that never sees a running cooldown
in_cooldown_never(st, t) == FALSE

\* Check 1: state.cooldown_until and now < state.cooldown_until
in_cooldown(st, t) == st.cooldown_until # NoTime /\ t < st.cooldown_until

\* Check 2: state.cooldown_until and now >= state.cooldown_until
cooldown_expired(st, t) == st.cooldown_until # NoTime /\ t >= st.cooldown_until

\* a window that lasts the free tier's hours for every tier
window_expired_free(st, t, limits) == t >= st.window_start + FreeWindowHours

\* Check 3: now >= window_start + timedelta(hours=window_hours)
window_expired(st, t, limits) == t >= st.window_start + limits.window_hours

\* a limit that is reached one request late
at_limit_late(st, limits) == st.request_count > limits.max_requests

\* Check 4: state.request_count >= max_requests
at_limit(st, limits) == st.request_count >= limits.max_requests

\* check_rate_limit(tier) evaluated on row st at time t:
\* the verdict, the reset time handed back when blocked, and the row after
check_rate_limit(st, t, tier) ==
    LET limits == get_limits_for_tier(tier)
    IN  IF ~st.exists
        THEN \* first time: create the row
             [allowed |-> TRUE, reset |-> NoTime, state |-> RateRow(0, t, NoTime)]
        ELSE IF in_cooldown(st, t)
        THEN [allowed |-> FALSE, reset |-> st.cooldown_until, state |-> st]
        ELSE IF cooldown_expired(st, t)
        THEN \* reset everything
             [allowed |-> TRUE, reset |-> NoTime, state |-> RateRow(0, t, NoTime)]
        ELSE IF window_expired(st, t, limits)
        THEN \* reset counter
             [allowed |-> TRUE, reset |-> NoTime,
              state |-> RateRow(0, t, st.cooldown_until)]
        ELSE IF at_limit(st, limits)
        THEN \* enter cooldown
             [allowed |-> FALSE, reset |-> t + limits.cooldown_hours,
              state |-> RateRow(st.request_count, st.window_start,
                                t + limits.cooldown_hours)]
        ELSE [allowed |-> TRUE, reset |-> NoTime, state |-> st]

\* increment_request_count: the row after the increment
increment_request_count(st, t) ==
    IF ~st.exists
    THEN RateRow(1, t, NoTime)
    ELSE RateRow(st.request_count + 1, st.window_start, st.cooldown_until)

\* ------------------------------------------------------------------------
\* State
\* ------------------------------------------------------------------------
VARIABLES
    \* rate limiter (backend/rate_limiter.py, reached through edge_client.py)
    rl,                   \* the RateLimitState row
    now,                  \* datetime.utcnow(), in hours
    user_tier,            \* the tier of the user's membership
    lastCheck,            \* history: the last check_rate_limit call
    \* ConnectionManager (backend/websockets.py)
    rooms,                \* room_id -> list of websockets (<<>>: no such key)
    cached_sidebar_state, \* last payload broadcast to "sidebar"
    conn,                 \* per websocket: where its endpoint handler stands
    alive,                \* per websocket: the client end is still there
    recv,                 \* per websocket: payloads delivered to it, in order
    bc,                   \* broadcast calls in progress (fan-out specification)
    joinCache,            \* history: the cache sent to a websocket on join
    \* InstagramBot (worker/platforms/instagram.py)
    is_active, history_version, current_chat_id, sent_message_ids,
    tracked_cache,
    focus,                \* the chat open on the single browser page
    lpc,                  \* listener loop: position
    change_event,         \* asyncio.Event set by the DOM observer
    old_snapshot,         \* listener loop: previous inbox snapshot
    lst,                  \* listener loop: locals of the current cycle
    lfetch,               \* get_chat_history call of the listener
    hfetch,               \* get_chat_history call of the read path
    rtask,                \* reply tasks, in spawn order
    asks,                 \* POST /assistant/ask requests, in arrival order
    \* remote application and persisted data
    remote,               \* chat -> rows of the conversation
    inbox,                \* the inbox list: <<[id, preview]>>, top first
    settings,             \* ChatSettings rows
    global_settings,      \* sessions.json "global"
    db2,                  \* persisted messages: <<chat_id, message_id>>
    \* history variables
    wslog,                \* every payload handed to manager.broadcast
    lastCycle,            \* the last dedup cycle of the listener
    liveHist,             \* per chat: ids of the last history the listener processed
    staleFx,              \* effects that results of stale fetches had
    lastRead,             \* per chat: ids returned by the last read-path load
    lastInbox,            \* history: the last two inbox extractions of the loop
    \* server process (backend/main.py, lifespan)
    shutdown,             \* "up", "closing" (close() awaited under its
                          \* timeout) or "down"
    listens               \* per caller of listen(): how far its call has come

rlVars == <<rl, now, user_tier, lastCheck, asks>>
wsVars == <<rooms, cached_sidebar_state, conn, alive, recv, bc, joinCache>>
botVars == <<is_active, history_version, current_chat_id, sent_message_ids,
             tracked_cache, focus>>
loopVars == <<lpc, change_event, old_snapshot, lst, lfetch>>
envVars == <<remote, inbox>>
dbVars == <<settings, global_settings, db2>>
histVars == <<wslog, lastCycle, liveHist, staleFx, lastRead, lastInbox, shutdown, listens>>
vars == <<rlVars, wsVars, botVars, loopVars, hfetch, rtask, envVars, dbVars,
          histVars>>
\* everything outside the ConnectionManager
notWS == <<rlVars, botVars, loopVars, hfetch, rtask, envVars, dbVars, histVars>>

\* ------------------------------------------------------------------------
\* ConnectionManager: backend/websockets.py
\* ------------------------------------------------------------------------
\* room_name of websocket_endpoint: "sidebar", or f"chat_{chat_id}"
ChatRoom(c) == "chat_" \o c
Rooms == {"sidebar"} \cup {ChatRoom(c) : c \in Chats}

\* a broadcast message: its event, the chat it names, a number it carries
\* (a message id, a reset time) and the text it carries
PayloadT(ev, chat, arg, text) ==
    [event |-> ev, chat |-> chat, arg |-> arg, text |-> text]

Payload(ev, chat, arg) == PayloadT(ev, chat, arg, <<>>)
\* cached_sidebar_state = None
NoPayload == Payload("none", "", 0)

Members(list) == {list[i] : i \in DOMAIN list}

\* list.remove(websocket)
Remove(list, ws) == SelectSeq(list, LAMBDA x : x # ws)

\* ConnectionManager.disconnect: self.rooms after the call
disconnect(rms, ws, room) ==
    IF ws \in Members(rms[room])
    THEN [rms EXCEPT ![room] = Remove(@, ws)]
    ELSE rms

\* the key of the room was deleted by the call (del self.rooms[room_id])
RoomDeleted(rms, ws, room) ==
    ws \in Members(rms[room]) /\ Remove(rms[room], ws) = <<>>

\* ConnectionManager.is_active
manager_is_active(c) == Len(rooms[ChatRoom(c)]) > 0

\* websocket.send_json(payload): what the websocket has received afterwards
send_json(rcv, ws, payload) ==
    IF alive[ws] THEN [rcv EXCEPT ![ws] = Append(@, payload)] ELSE rcv

\* websocket_endpoint up to manager.connect's await websocket.accept()
WSAccept(s, room) ==
    /\ conn[s].st = "none"
    /\ conn' = [conn EXCEPT ![s] = [st |-> "accepting", room |-> room]]
    /\ UNCHANGED <<rooms, cached_sidebar_state, alive, recv, bc, joinCache>>
    /\ UNCHANGED notWS

\* a connect that sends nothing to the joining websocket
connect_recv_nothing(s, room) == recv

\* what ConnectionManager.connect sends to the joining websocket
connect_recv(s, room) ==
    IF room = "sidebar" /\ cached_sidebar_state # NoPayload
    THEN send_json(recv, s, cached_sidebar_state)
    ELSE recv

\* ConnectionManager.connect after the accept: append, then the cache sync
WSConnect(s) ==
    /\ conn[s].st = "accepting"
    /\ rooms' = [rooms EXCEPT ![conn[s].room] = Append(@, s)]
    /\ recv' = connect_recv(s, conn[s].room)
    /\ joinCache' = [joinCache EXCEPT ![s] =
                        IF conn[s].room = "sidebar"
                        THEN [cache |-> cached_sidebar_state, alive |-> alive[s]]
                        ELSE @]
    /\ conn' = [conn EXCEPT ![s].st = "open"]
    /\ UNCHANGED <<cached_sidebar_state, alive, bc>>
    /\ UNCHANGED notWS

\* the client end of a websocket goes away; later sends to it raise
ClientDrop(s) ==
    /\ conn[s].st \in {"accepting", "open"}
    /\ alive[s]
    /\ alive' = [alive EXCEPT ![s] = FALSE]
    /\ UNCHANGED <<rooms, cached_sidebar_state, conn, recv, bc, joinCache>>
    /\ UNCHANGED notWS

\* broadcast calls whose iterator holds the list of a room that was deleted
Detach(b, room, deleted) ==
    [i \in DOMAIN b |->
        IF deleted /\ b[i].room = room /\ ~b[i].done
        THEN [b[i] EXCEPT !.detached = TRUE] ELSE b[i]]

\* websocket_endpoint: receive_text raises WebSocketDisconnect
EndpointDisconnect(s) ==
    /\ conn[s].st = "open"
    /\ ~alive[s]
    /\ rooms' = disconnect(rooms, s, conn[s].room)
    /\ bc' = [i \in DOMAIN bc |->
                LET d == Detach(bc, conn[s].room,
                                RoomDeleted(rooms, s, conn[s].room))[i]
                IN  IF d.room = conn[s].room /\ ~d.done
                         /\ s \in Members(rooms[conn[s].room])
                    THEN [d EXCEPT !.churn = TRUE] ELSE d]
    /\ conn' = [conn EXCEPT ![s].st = "gone"]
    /\ UNCHANGED <<cached_sidebar_state, alive, recv, joinCache>>
    /\ UNCHANGED notWS

\* the cache after broadcast(room_id, message)
broadcast_cache(room, payload) ==
    IF room = "sidebar" THEN payload ELSE cached_sidebar_state

\* one turn of "for connection in self.rooms[room_id]" of broadcast call b on
\* list: the iterator yields list[idx] (0-based) or stops; send_json is
\* called on the yielded connection and the call suspends in its await
IterSend(b, list, rcv) ==
    IF b.idx < Len(list)
    THEN LET c == list[b.idx + 1]
         IN  [b |-> [b EXCEPT !.idx = @ + 1,
                              !.pending = IF alive[c] THEN "ok" ELSE "fail",
                              !.pconn = c],
              recv |-> send_json(rcv, c, b.payload)]
    ELSE [b |-> [b EXCEPT !.done = TRUE, !.pending = "none"], recv |-> rcv]

\* ConnectionManager.broadcast, from the call to its first await
BcStart(room, ev) ==
    /\ Len(bc) < MaxBcasts
    /\ LET payload == Payload(ev, "", Len(bc) + 1)
           b0 == [room |-> room, payload |-> payload, idx |-> 0,
                  pending |-> "none", pconn |-> "", detached |-> FALSE,
                  done |-> FALSE, start |-> Members(rooms[room]),
                  failed |-> {}, churn |-> FALSE]
           r == IterSend(b0, rooms[room], recv)
       IN  /\ cached_sidebar_state' = broadcast_cache(room, payload)
           /\ bc' = Append(bc, r.b)
           /\ recv' = r.recv
    /\ UNCHANGED <<rooms, conn, alive, joinCache>>
    /\ UNCHANGED notWS

\* ConnectionManager.broadcast resumes from the await of a send_json: the
\* except branch disconnects a connection whose send raised, then the loop
\* takes its next turn
BcStep(i) ==
    /\ i \in DOMAIN bc
    /\ ~bc[i].done
    /\ LET b == bc[i]
           fail == b.pending = "fail"
           rms == IF fail THEN disconnect(rooms, b.pconn, b.room) ELSE rooms
           del == fail /\ RoomDeleted(rooms, b.pconn, b.room)
           bcd == Detach(bc, b.room, del)
           b1 == [bcd[i] EXCEPT !.failed = IF fail THEN @ \cup {b.pconn} ELSE @]
           list == IF b1.detached THEN <<>> ELSE rms[b.room]
           r == IterSend(b1, list, recv)
       IN  /\ rooms' = rms
           /\ bc' = [bcd EXCEPT ![i] = r.b]
           /\ recv' = r.recv
    /\ UNCHANGED <<cached_sidebar_state, conn, alive, joinCache>>
    /\ UNCHANGED notWS

\* ------------------------------------------------------------------------
\* The remote application (the page the bot scrapes)
\* ------------------------------------------------------------------------
NoChat == ""
\* a chat_id that is no key of a snapshot
Absent == ""

TypingLower == "typing..."
TypingMarkers == {"Typing..."}

\* str.lower() on the previews of the model
Lower(p) == IF p \in TypingMarkers THEN TypingLower ELSE p

\* the text (and inbox preview) of the message with this id
Text(id) == "m" \o ToString(id)

Msg(id, me, c) == [message_id |-> id, is_me |-> me, src |-> c]

\* a record without a message_id (msg.get("message_id") is None)
NoId == 0

RECURSIVE SumLen(_, _)
SumLen(f, S) ==
    IF S = {} THEN 0
    ELSE LET c == CHOOSE x \in S : TRUE IN Len(f[c]) + SumLen(f, S \ {c})

TotalMsgs == SumLen(remote, Chats)

InboxIds(inb) == {inb[i].id : i \in DOMAIN inb}

PreviewOf(inb, c) ==
    IF c \in InboxIds(inb)
    THEN inb[CHOOSE i \in DOMAIN inb :
                 inb[i].id = c /\ \A j \in DOMAIN inb : inb[j].id = c => j <= i].preview
    ELSE Absent

MoveToTop(inb, c, p) ==
    <<[id |-> c, preview |-> p]>> \o SelectSeq(inb, LAMBDA e : e.id # c)

SetPreview(inb, c, p) ==
    [i \in DOMAIN inb |->
        IF inb[i].id = c THEN [id |-> c, preview |-> p] ELSE inb[i]]

\* a message appears in chat c (from the peer, or typed by the user
\* elsewhere): the chat moves to the top of the inbox with the new preview
\* and the DOM observer raises the change signal
ArriveUpTo(c, me, max) ==
    /\ TotalMsgs < max
    /\ remote' = [remote EXCEPT ![c] = Append(@, Msg(TotalMsgs + 1, me, c))]
    /\ inbox' = MoveToTop(inbox, c, Text(TotalMsgs + 1))
    /\ change_event' = TRUE
    /\ UNCHANGED <<rlVars, wsVars, botVars, lpc, old_snapshot, lst, lfetch,
                   hfetch, rtask, dbVars, histVars>>

Arrive(c, me) == ArriveUpTo(c, me, MaxMsgs)

\* the peer starts typing: the preview of the chat shows the typing marker
TypingStart(c, marker) ==
    /\ c \in InboxIds(inbox)
    /\ PreviewOf(inbox, c) \notin TypingMarkers
    /\ inbox' = SetPreview(inbox, c, marker)
    /\ change_event' = TRUE
    /\ UNCHANGED <<rlVars, wsVars, botVars, lpc, old_snapshot, lst, lfetch,
                   hfetch, rtask, remote, dbVars, histVars>>

\* the peer stops typing: the preview shows the last message again
TypingStop(c) ==
    /\ c \in InboxIds(inbox)
    /\ PreviewOf(inbox, c) \in TypingMarkers
    /\ inbox' = SetPreview(inbox, c,
                           Text(remote[c][Len(remote[c])].message_id))
    /\ change_event' = TRUE
    /\ UNCHANGED <<rlVars, wsVars, botVars, lpc, old_snapshot, lst, lfetch,
                   hfetch, rtask, remote, dbVars, histVars>>

\* the remote application reorders its inbox without touching a preview (a
\* chat is pinned, or a message repeats the text of the one before it): the
\* chat moves to the top and the DOM observer raises the change signal
InboxReorder(c) ==
    /\ c \in InboxIds(inbox)
    /\ inbox[1].id # c
    /\ inbox' = MoveToTop(inbox, c, PreviewOf(inbox, c))
    /\ change_event' = TRUE
    /\ UNCHANGED <<rlVars, wsVars, botVars, lpc, old_snapshot, lst, lfetch,
                   hfetch, rtask, remote, dbVars, histVars>>

\* any other mutation of the page raises the change signal as well
DomNoise ==
    /\ is_active
    /\ ~change_event
    /\ change_event' = TRUE
    /\ UNCHANGED <<rlVars, wsVars, botVars, lpc, old_snapshot, lst, lfetch,
                   hfetch, rtask, envVars, dbVars, histVars>>

\* ------------------------------------------------------------------------
\* InstagramBot.get_chat_history: worker/platforms/instagram.py
\* ------------------------------------------------------------------------
ListenerLimit == 10
ReadPathLimit == 500

IdleFetch == [pc |-> "idle", chat |-> NoChat, ver |-> 0, limit |-> 0,
              result |-> <<>>]

\* rows.slice(-limit)
LastN(rows, n) ==
    IF Len(rows) <= n THEN rows ELSE SubSeq(rows, Len(rows) - n + 1, Len(rows))

Ids(msgs) == [i \in DOMAIN msgs |-> msgs[i].message_id]
IdSet(msgs) == {msgs[i].message_id : i \in DOMAIN msgs} \ {NoId}

\* the call up to its first await: history_version += 1, my_version,
\* current_chat_id = chat_id
history_begin(chat, limit) ==
    [pc |-> "nav", chat |-> chat, ver |-> history_version + 1,
     limit |-> limit, result |-> <<>>]

\* navigation: the row of the chat is clicked ("click"), is not found
\* ("norow": nothing is clicked) or the locator raises ("raise": return [])
NavOutcomes == {"click", "norow", "raise"}

history_nav(f, o) ==
    IF o = "raise" THEN [f EXCEPT !.pc = "ret", !.result = <<>>]
    ELSE [f EXCEPT !.pc = "scrape"]

nav_focus(f, o) == IF o = "click" THEN f.chat ELSE focus

\* the scrape script runs in the page: the last `limit` rows of the chat that
\* is open at that moment (ok), or the evaluation raises (return [])
history_scrape(f, ok) ==
    [f EXCEPT !.pc = "ret",
              !.result = IF ok /\ focus # NoChat
                         THEN LastN(remote[focus], f.limit) ELSE <<>>]

\* my_version != self.history_version when the result is back
Stale(f) == f.ver # history_version

\* the result is persisted to db2 only by the current request
history_persist(f) ==
    IF f.result # <<>> /\ f.chat # NoChat /\ ~Stale(f)
    THEN db2 \cup {<<f.chat, id>> : id \in IdSet(f.result)}
    ELSE db2

\* a stale result whose superseding fetch is for another chat
StaleOther(f) == Stale(f) /\ current_chat_id # f.chat

\* ------------------------------------------------------------------------
\* Listener loop: InstagramBot.listen / _listen_loop
\* ------------------------------------------------------------------------
EmptySnap == [c \in Chats |-> Absent]

\* {c["id"]: c["preview"] for c in current_inbox}
Snapshot(inb) == [c \in Chats |-> PreviewOf(inb, c)]

InboxOrder(inb) == [i \in DOMAIN inb |-> inb[i].id]

\* a diff that reports typing previews as changes
changed_chats_with_typing(old, inb) ==
    SelectSeq(InboxOrder(inb),
              LAMBDA cid : old[cid] # Absent /\ old[cid] # Snapshot(inb)[cid])

\* the changed_chats list comprehension
changed_chats(old, inb) ==
    LET new == Snapshot(inb)
    IN  SelectSeq(InboxOrder(inb),
                  LAMBDA cid : /\ old[cid] # Absent
                               /\ old[cid] # new[cid]
                               /\ Lower(new[cid]) # TypingLower)

\* what manager.broadcast(room, payload) is called with
Bcast(log, room, payload) == log \cup {[room |-> room, payload |-> payload]}

NoGlobal == [auto_reply_all |-> FALSE, global_rules |-> ""]

\* no inbox extraction has been made
NoInbox == [o |-> "none", cur |-> <<>>, differs |-> FALSE, bcast |-> FALSE]

\* the record of an extraction: its outcome, the last list an extraction
\* gave without failing, whether this list is another one than the list
\* before it, and whether the cycle broadcast a sidebar_update
InboxRecord(o, cur, bcast) ==
    [o |-> o, cur |-> IF o = "ok" THEN cur ELSE lastInbox.cur,
     differs |-> o = "ok" /\ cur # lastInbox.cur, bcast |-> bcast]

IdleLst == [new_snapshot |-> EmptySnap, changed |-> <<>>, cur |-> NoChat,
            is_tracked |-> FALSE, has_viewer |-> FALSE, g |-> NoGlobal,
            new |-> <<>>, enrolled |-> FALSE, seen0 |-> {}]

NoSettings == [exists |-> FALSE, enabled |-> FALSE, auto_reply |-> FALSE,
               custom_rules |-> ""]

\* refresh_cache: the chats whose settings row has enabled = True
EnabledChats(st) == {c \in SettingsChats : st[c].exists /\ st[c].enabled}

\* _apply_global_settings_to_chat: the settings rows after the call
apply_global_settings(st, c, rules) ==
    [st EXCEPT ![c] = [exists |-> TRUE, enabled |-> TRUE, auto_reply |-> TRUE,
                       custom_rules |-> rules]]

\* a reading of the global settings that always finds auto_reply_all set
is_global_enabled_always(g) == TRUE

\* is_global_enabled = global_settings.get("auto_reply_all", False)
is_global_enabled(g) == g.auto_reply_all

\* "for chat_id in changed_chats" up to the debounce sleep of the first chat
\* that is tracked or has a viewer. An untracked chat is enrolled on the way
\* when auto_reply_all is set: _apply_global_settings_to_chat writes the
\* settings row and adds the chat to the cache, or (dbok false) catches the
\* database error and changes nothing; is_tracked is set either way
RECURSIVE LoopScan(_, _, _, _, _)
LoopScan(chs, g, tc, st, dbok) ==
    IF chs = <<>>
    THEN [found |-> FALSE, cur |-> NoChat, rest |-> <<>>, is_tracked |-> FALSE,
          has_viewer |-> FALSE, tc |-> tc, st |-> st, enrolled |-> FALSE]
    ELSE LET c == Head(chs)
             enroll == is_global_enabled(g) /\ c \notin tc
             tc1 == IF enroll /\ dbok THEN tc \cup {c} ELSE tc
             st1 == IF enroll /\ dbok
                    THEN apply_global_settings(st, c, g.global_rules)
                    ELSE st
             tracked == c \in tc \/ enroll
             viewer == manager_is_active(c)
         IN  IF ~viewer /\ ~tracked
             THEN LoopScan(Tail(chs), g, tc1, st1, dbok)
             ELSE [found |-> TRUE, cur |-> c, rest |-> Tail(chs),
                   is_tracked |-> tracked, has_viewer |-> viewer,
                   tc |-> tc1, st |-> st1, enrolled |-> enroll]

\* the loop moves on to the remaining changed chats (or back to the wait)
LoopGo(chs, g, dbok) ==
    LET scan == LoopScan(chs, g, tracked_cache, settings, dbok)
    IN  /\ tracked_cache' = scan.tc
        /\ settings' = scan.st
        /\ IF scan.found
           THEN /\ lpc' = "debounce"
                /\ lst' = [IdleLst EXCEPT !.changed = scan.rest, !.cur = scan.cur,
                                          !.is_tracked = scan.is_tracked,
                                          !.has_viewer = scan.has_viewer, !.g = g,
                                          !.enrolled = scan.enrolled,
                                          !.seen0 = sent_message_ids[scan.cur]]
           ELSE /\ lpc' = "wait"
                /\ lst' = IdleLst

\* a pass that reports every fetched message as new
new_messages_all(hist, seen) == hist

\* a pass that takes a record without a message_id like any other
RECURSIVE new_messages_unguarded(_, _)
new_messages_unguarded(hist, seen) ==
    IF hist = <<>> THEN <<>>
    ELSE LET m == Head(hist)
         IN  IF m.message_id \notin seen
             THEN <<m>> \o new_messages_unguarded(Tail(hist),
                                                  seen \cup {m.message_id})
             ELSE new_messages_unguarded(Tail(hist), seen)

\* the new-message pass over a fetched history: a record with a message_id
\* that is not in the tracker is appended and its id added to the tracker;
\* a record without a message_id is only logged
RECURSIVE new_messages(_, _)
new_messages(hist, seen) ==
    IF hist = <<>> THEN <<>>
    ELSE LET m == Head(hist)
         IN  IF m.message_id # NoId /\ m.message_id \notin seen
             THEN <<m>> \o new_messages(Tail(hist), seen \cup {m.message_id})
             ELSE new_messages(Tail(hist), seen)

\* a pass that leaves the tracker as it was
tracked_after_nothing(hist, seen) == seen

\* self.sent_message_ids[chat_id] after the pass: the id of every record the
\* pass took for new has been added
tracked_after(hist, seen) == seen \cup IdSet(new_messages(hist, seen))

\* a reply decision that ignores who wrote the last new message
spawns_reply_any_author(tracked, new) == tracked

\* is_tracked and not is_from_me, on the last new message
spawns_reply(tracked, new) == tracked /\ ~new[Len(new)].is_me

\* a reply task at its start; besides its position it records what it has
\* done: the reset time a blocked check gave it, its calls of
\* generate_smart_reply, its increment calls, the reply it holds, the parts it
\* still has to send and the send_message calls it made
NewTask(c) ==
    [chat |-> c, pc |-> "start", tier |-> "free", checked |-> FALSE,
     reset |-> NoTime, gen |-> 0, incr |-> 0, reply |-> <<>>, parts |-> <<>>,
     sent |-> <<>>, trigger |-> {}, fetched |-> FALSE]

\* the task create_task starts for a chat; trigger records the new messages
\* of the cycle that spawned it
SpawnTask(c, new) == [NewTask(c) EXCEPT !.trigger = IdSet(new)]

\* listen(): is_active is set, the cache refreshed, and the loop takes its
\* initial snapshot and broadcasts it; when the initial get_inbox times out
\* the loop returns at once
ListenStart(ok) ==
    /\ lpc = "off"
    /\ ~is_active
    /\ is_active' = TRUE
    /\ tracked_cache' = EnabledChats(settings)
    /\ IF ok
       THEN /\ old_snapshot' = Snapshot(inbox)
            /\ wslog' = Bcast(wslog, "sidebar", Payload("sidebar_update", "", 0))
            /\ cached_sidebar_state' =
                  broadcast_cache("sidebar", Payload("sidebar_update", "", 0))
            /\ lastInbox' = [NoInbox EXCEPT !.cur = inbox, !.bcast = TRUE]
            /\ lpc' = "wait"
       ELSE /\ lpc' = "ended"
            /\ UNCHANGED <<old_snapshot, wslog, cached_sidebar_state, lastInbox>>
    /\ UNCHANGED <<rlVars, rooms, conn, alive, recv, bc, joinCache,
                   history_version, current_chat_id, sent_message_ids, focus,
                   change_event, lst, lfetch, hfetch, rtask, envVars, dbVars,
                   lastCycle, liveHist, staleFx, lastRead, shutdown, listens>>

\* wait_for(change_event.wait(), timeout=3) returns with the event set; the
\* active flag is not read here but at the head of the loop and after a
\* timeout, so a wait that close() finds under way still ends with the event
L_Wake ==
    /\ lpc = "wait"
    /\ change_event
    /\ lpc' = "settle"
    /\ UNCHANGED <<rlVars, wsVars, botVars, change_event, old_snapshot, lst,
                   lfetch, hfetch, rtask, envVars, dbVars, histVars>>

\* after the half-second sleep the event is cleared
L_Settle ==
    /\ lpc = "settle"
    /\ change_event' = FALSE
    /\ lpc' = "inbox"
    /\ UNCHANGED <<rlVars, wsVars, botVars, old_snapshot, lst, lfetch, hfetch,
                   rtask, envVars, dbVars, histVars>>

\* a loop that clears the event once the extraction is back
event_cleared_late(ev) == FALSE

\* the event across an extraction: change_event.clear() stands before
\* get_inbox, so what the observer sets during the extraction stays set
event_after_extraction(ev) == ev

\* get_inbox under wait_for(timeout=4): the inbox list ("ok"), a timeout
\* ("timeout": the cycle is skipped) or an error inside get_inbox ("error":
\* it returns []); then the diff and the sidebar broadcast
L_Inbox(o) ==
    /\ lpc = "inbox"
    /\ LET cur == IF o = "ok" THEN inbox ELSE <<>>
           new == Snapshot(cur)
       IN  IF o = "timeout" \/ new = old_snapshot
           THEN /\ lpc' = "wait"
                /\ lastInbox' = InboxRecord(o, cur, FALSE)
                /\ UNCHANGED <<lst, wslog, cached_sidebar_state>>
           ELSE /\ lpc' = "sidebar"
                /\ lastInbox' = InboxRecord(o, cur, TRUE)
                /\ lst' = [IdleLst EXCEPT !.new_snapshot = new,
                                          !.changed = changed_chats(old_snapshot, cur)]
                /\ wslog' = Bcast(wslog, "sidebar", Payload("sidebar_update", "", 0))
                /\ cached_sidebar_state' =
                      broadcast_cache("sidebar", Payload("sidebar_update", "", 0))
    /\ change_event' = event_after_extraction(change_event)
    /\ UNCHANGED <<rlVars, rooms, conn, alive, recv, bc, joinCache, botVars,
                   old_snapshot, lfetch, hfetch, rtask, envVars,
                   dbVars, lastCycle, liveHist, staleFx, lastRead, shutdown, listens>>

\* after the sidebar broadcast: old_snapshot = new_snapshot, the global
\* settings are read and the loop over the changed chats starts
L_Sidebar(dbok) ==
    /\ lpc = "sidebar"
    /\ old_snapshot' = lst.new_snapshot
    /\ IF lst.changed = <<>>
       THEN /\ lpc' = "wait"
            /\ lst' = IdleLst
            /\ UNCHANGED <<tracked_cache, settings>>
       ELSE LoopGo(lst.changed, global_settings, dbok)
    /\ UNCHANGED <<rlVars, wsVars, is_active, history_version, current_chat_id,
                   sent_message_ids, focus, change_event, lfetch, hfetch, rtask,
                   envVars, global_settings, db2, histVars>>

\* after the debounce sleep: get_chat_history(chat_id, limit=10) is called
L_Debounce ==
    /\ lpc = "debounce"
    /\ history_version < MaxVersion
    /\ lfetch' = history_begin(lst.cur, ListenerLimit)
    /\ history_version' = history_version + 1
    /\ current_chat_id' = lst.cur
    /\ lpc' = "fetching"
    /\ UNCHANGED <<rlVars, wsVars, is_active, sent_message_ids, tracked_cache,
                   focus, change_event, old_snapshot, lst, hfetch, rtask,
                   envVars, dbVars, histVars>>

L_Nav(o) ==
    /\ lpc = "fetching"
    /\ lfetch.pc = "nav"
    /\ lfetch' = history_nav(lfetch, o)
    /\ focus' = nav_focus(lfetch, o)
    /\ UNCHANGED <<rlVars, wsVars, is_active, history_version, current_chat_id,
                   sent_message_ids, tracked_cache, lpc, change_event,
                   old_snapshot, lst, hfetch, rtask, envVars, dbVars, histVars>>

L_Scrape(ok) ==
    /\ lpc = "fetching"
    /\ lfetch.pc = "scrape"
    /\ lfetch' = history_scrape(lfetch, ok)
    /\ UNCHANGED <<rlVars, wsVars, botVars, lpc, change_event, old_snapshot,
                   lst, hfetch, rtask, envVars, dbVars, histVars>>

\* get_chat_history returns to the loop: version check and persistence, then
\* the dedup pass, the new_message broadcasts when a viewer was connected,
\* otherwise directly the reply decision and the next changed chat
L_Fetched(dbok) ==
    /\ lpc = "fetching"
    /\ lfetch.pc = "ret"
    /\ LET c == lst.cur
           hist == lfetch.result
           seen == sent_message_ids[c]
           new == new_messages(hist, seen)
           spawn == new # <<>> /\ spawns_reply(lst.is_tracked, new)
           direct == new # <<>> /\ ~lst.has_viewer
       IN  /\ spawn /\ direct => Len(rtask) < MaxTasks
           /\ db2' = history_persist(lfetch)
           /\ lfetch' = IdleFetch
           /\ sent_message_ids' =
                 [sent_message_ids EXCEPT ![c] = tracked_after(hist, @)]
           /\ IF hist = <<>>
              THEN UNCHANGED <<lastCycle, liveHist, staleFx>>
              ELSE /\ liveHist' = [liveHist EXCEPT ![c] = Ids(hist)]
                   /\ lastCycle' = [chat |-> c, hist |-> Ids(hist),
                                    prev |-> liveHist[c], read |-> lastRead[c],
                                    new |-> new, tracked |-> lst.is_tracked,
                                    nbcast |-> IF lst.has_viewer THEN Len(new) ELSE 0,
                                    spawned |-> spawn /\ direct]
                   /\ staleFx' = staleFx
                         \cup (IF StaleOther(lfetch) /\ new # <<>>
                               THEN {"tracked"} ELSE {})
                         \cup (IF StaleOther(lfetch) /\ new # <<>> /\ lst.has_viewer
                               THEN {"broadcast"} ELSE {})
           /\ IF new # <<>> /\ lst.has_viewer
              THEN /\ wslog' = wslog \cup
                        {[room |-> ChatRoom(c),
                          payload |-> Payload("new_message", c, new[i].message_id)] :
                            i \in DOMAIN new}
                   /\ lpc' = "bcast_new"
                   /\ lst' = [lst EXCEPT !.new = new]
                   /\ UNCHANGED <<rtask, tracked_cache, settings>>
              ELSE /\ rtask' = IF spawn THEN Append(rtask, SpawnTask(c, new)) ELSE rtask
                   /\ LoopGo(lst.changed, lst.g, dbok)
                   /\ UNCHANGED wslog
    /\ UNCHANGED <<rlVars, wsVars, is_active, history_version, current_chat_id,
                   focus, change_event, old_snapshot, hfetch, envVars,
                   global_settings, lastRead, lastInbox, shutdown, listens>>

\* after the new_message broadcasts: the reply decision on the last new
\* message, then the next changed chat
L_BcastNew(dbok) ==
    /\ lpc = "bcast_new"
    /\ LET spawn == spawns_reply(lst.is_tracked, lst.new)
       IN  /\ spawn => Len(rtask) < MaxTasks
           /\ rtask' = IF spawn THEN Append(rtask, SpawnTask(lst.cur, lst.new))
                       ELSE rtask
           /\ lastCycle' = [lastCycle EXCEPT !.spawned = spawn]
    /\ LoopGo(lst.changed, lst.g, dbok)
    /\ UNCHANGED <<rlVars, wsVars, is_active, history_version, current_chat_id,
                   sent_message_ids, focus, change_event, old_snapshot, lfetch,
                   hfetch, envVars, global_settings, db2, wslog, liveHist, staleFx, lastRead, lastInbox, shutdown, listens>>

\* ------------------------------------------------------------------------
\* Read path: GET /chats/{chat_id}/history (backend/main.py)
\* ------------------------------------------------------------------------
H_Start(c) ==
    /\ hfetch.pc = "idle"
    /\ is_active
    /\ history_version < MaxVersion
    /\ hfetch' = history_begin(c, ReadPathLimit)
    /\ history_version' = history_version + 1
    /\ current_chat_id' = c
    /\ UNCHANGED <<rlVars, wsVars, is_active, sent_message_ids, tracked_cache,
                   focus, loopVars, rtask, envVars, dbVars, histVars>>

H_Nav(o) ==
    /\ hfetch.pc = "nav"
    /\ hfetch' = history_nav(hfetch, o)
    /\ focus' = nav_focus(hfetch, o)
    /\ UNCHANGED <<rlVars, wsVars, is_active, history_version, current_chat_id,
                   sent_message_ids, tracked_cache, loopVars, rtask, envVars,
                   dbVars, histVars>>

H_Scrape(ok) ==
    /\ hfetch.pc = "scrape"
    /\ hfetch' = history_scrape(hfetch, ok)
    /\ UNCHANGED <<rlVars, wsVars, botVars, loopVars, rtask, envVars, dbVars,
                   histVars>>

\* an endpoint that pre-populates nothing
preseed_nothing(sent, c, hist) == sent

\* the ids the endpoint pre-populates sent_message_ids[chat_id] with
preseed(sent, c, hist) == [sent EXCEPT ![c] = @ \cup IdSet(hist)]

\* get_chat_history returns to the endpoint: 404 on an empty history,
\* otherwise every message_id is added to sent_message_ids[chat_id]
H_Done ==
    /\ hfetch.pc = "ret"
    /\ db2' = history_persist(hfetch)
    /\ hfetch' = IdleFetch
    /\ IF hfetch.result = <<>>
       THEN UNCHANGED <<sent_message_ids, lastRead, staleFx>>
       ELSE /\ sent_message_ids' =
                  preseed(sent_message_ids, hfetch.chat, hfetch.result)
            /\ lastRead' = [lastRead EXCEPT ![hfetch.chat] = Ids(hfetch.result)]
            /\ staleFx' = staleFx \cup
                  (IF StaleOther(hfetch)
                      /\ ~(IdSet(hfetch.result) \subseteq sent_message_ids[hfetch.chat])
                   THEN {"tracked"} ELSE {})
    /\ UNCHANGED <<rlVars, wsVars, is_active, history_version, current_chat_id,
                   tracked_cache, focus, loopVars, rtask, envVars, settings,
                   global_settings, wslog, lastCycle, liveHist, lastInbox, shutdown, listens>>

\* ------------------------------------------------------------------------
\* Reply task: InstagramBot._handle_reply_generation
\* ------------------------------------------------------------------------
\* a failed call that is taken for a refusal
check_via_edge_closed(st, t, tr, ok) ==
    IF ok THEN check_rate_limit(st, t, tr)
    ELSE [allowed |-> FALSE, reset |-> NoTime, state |-> st]

\* check_rate_limit_via_edge(action="check"): the verdict of the rate limiter,
\* or, when the call fails, allowed (fail open) with the row untouched
check_via_edge(st, t, tr, ok) ==
    IF ok THEN check_rate_limit(st, t, tr)
    ELSE [allowed |-> TRUE, reset |-> NoTime, state |-> st]

\* check_rate_limit_via_edge(action="increment")
increment_via_edge(st, t, ok) ==
    IF ok THEN increment_request_count(st, t) ELSE st

\* the record of a check_rate_limit call
CheckRecord(n, st, t, tr) ==
    LET res == check_rate_limit(st, t, tr)
    IN  [n |-> n, pre |-> st, t |-> t, tier |-> tr, allowed |-> res.allowed,
         reset |-> res.reset, post |-> res.state]

\* membership lookup and rate-limit check; blocked: the notice to the chat
\* room (a log event with a fixed text, without a reset time);
\* allowed: the "generating" log event
R_Check(i, tr, ok) ==
    /\ i \in DOMAIN rtask
    /\ rtask[i].pc = "start"
    /\ LET c == rtask[i].chat
           res == check_via_edge(rl, now, tr, ok)
       IN  /\ rl' = res.state
           /\ lastCheck' = IF ok THEN CheckRecord(lastCheck.n + 1, rl, now, tr)
                           ELSE lastCheck
           /\ IF res.allowed
              THEN /\ rtask' = [rtask EXCEPT ![i].pc = "generate", ![i].tier = tr,
                                             ![i].checked = ok]
                   /\ wslog' = Bcast(wslog, ChatRoom(c), Payload("log:generating", c, 0))
              ELSE /\ rtask' = [rtask EXCEPT ![i].pc = "blocked", ![i].tier = tr,
                                             ![i].checked = ok,
                                             ![i].reset = res.reset]
                   /\ wslog' = Bcast(wslog, ChatRoom(c),
                                     Payload("log:rate_limited", c, NoTime))
    /\ UNCHANGED <<now, user_tier, wsVars, botVars, loopVars, hfetch, asks,
                   envVars, dbVars, lastCycle, liveHist, staleFx,
                   lastRead, lastInbox, shutdown, listens>>

\* blocked: the rate_limited event to the sidebar room, then return
R_Blocked(i) ==
    /\ i \in DOMAIN rtask
    /\ rtask[i].pc = "blocked"
    /\ rtask' = [rtask EXCEPT ![i].pc = "done"]
    /\ wslog' = Bcast(wslog, "sidebar",
                      Payload("rate_limited", rtask[i].chat, rtask[i].reset))
    /\ cached_sidebar_state' =
          broadcast_cache("sidebar",
                          Payload("rate_limited", rtask[i].chat, rtask[i].reset))
    /\ UNCHANGED <<rlVars, rooms, conn, alive, recv, bc, joinCache, botVars,
                   loopVars, hfetch, envVars, dbVars, lastCycle,
                   liveHist, staleFx, lastRead, lastInbox, shutdown, listens>>

\* the parameters generate_profile takes (backend/user_profile.py)
generate_profile_params == {"chat_id", "bot", "message_limit", "force_refresh"}

\* what a call of generate_smart_reply is declared to end with: a text, None
\* (or an empty text) or an exception
GenOutcomes == {"text", "none", "raise"}

\* generate_smart_reply(chat_id, bot, auth_token=...): its first statement
\* calls generate_profile(chat_id, bot, auth_token=auth_token); when
\* generate_profile takes no auth_token parameter the call raises TypeError
\* before anything is fetched or generated
generate_smart_reply_outcomes ==
    IF "auth_token" \in generate_profile_params THEN GenOutcomes ELSE {"raise"}

\* a reply text is the sequence of its lines (text.split('\n'))
ReplyTexts == {<<"l1">>, <<"l1", "", " l2 ">>, <<"  ">>}

\* line.strip() on the lines of the model
Strip(l) == IF l = " l2 " THEN "l2" ELSE IF l = "  " THEN "" ELSE l

\* a split that keeps the lines as they are
reply_parts_raw(text) == text

\* [line.strip() for line in reply.split('\n') if line.strip()]
reply_parts(text) ==
    SelectSeq([k \in DOMAIN text |-> Strip(text[k])], LAMBDA l : l # "")

\* a test that takes every outcome of the generation for a reply
has_reply_always(o) == TRUE

\* "if reply:" on what generate_smart_reply returned
has_reply(o) == o = "text"

\* a task that ends without the "clear" log event
clear_log_nothing(log, c) == log

\* the "clear" log event to the room of the chat
clear_log(log, c) == Bcast(log, ChatRoom(c), Payload("log:clear", c, 0))

\* generate_smart_reply is back: with a reply the increment call follows;
\* with None, or when the call raised (the except branch of the task), the
\* "clear" log event is broadcast and the task ends
R_Generate(i, o, text) ==
    /\ i \in DOMAIN rtask
    /\ rtask[i].pc = "generate"
    /\ IF o # "raise" /\ has_reply(o)
       THEN /\ rtask' = [rtask EXCEPT ![i].pc = "incr", ![i].gen = @ + 1,
                                      ![i].reply = text]
            /\ UNCHANGED wslog
       ELSE /\ rtask' = [rtask EXCEPT ![i].pc = "done", ![i].gen = @ + 1]
            /\ wslog' = clear_log(wslog, rtask[i].chat)
    /\ UNCHANGED <<rlVars, wsVars, botVars, loopVars, hfetch, envVars, dbVars,
                   lastCycle, liveHist, staleFx, lastRead, lastInbox, shutdown, listens>>

\* settings.auto_reply if settings else False
auto_send(st, c) == st[c].exists /\ st[c].auto_reply

\* the increment call is back; the settings of the chat are read. auto_reply:
\* the reply is split and the "sending" log event broadcast (with no part at
\* all, reply_parts[0] raises and the except branch broadcasts "clear");
\* otherwise "clear" goes to the room of the chat and the suggestion event,
\* with the whole text, to the "sidebar" room
R_Incr(i, ok) ==
    /\ i \in DOMAIN rtask
    /\ rtask[i].pc = "incr"
    /\ rl' = increment_via_edge(rl, now, ok)
    /\ LET c == rtask[i].chat
           parts == reply_parts(rtask[i].reply)
           sugg == PayloadT("suggestion", c, 0, rtask[i].reply)
       IN  IF auto_send(settings, c)
           THEN /\ IF parts = <<>>
                   THEN /\ rtask' = [rtask EXCEPT ![i].pc = "done", ![i].incr = @ + 1]
                        /\ wslog' = clear_log(wslog, c)
                   ELSE /\ rtask' = [rtask EXCEPT ![i].pc = "sending",
                                                  ![i].incr = @ + 1,
                                                  ![i].parts = parts]
                        /\ wslog' = Bcast(wslog, ChatRoom(c),
                                          PayloadT("log:sending", c, Len(parts),
                                                   <<parts[1]>>))
                /\ UNCHANGED cached_sidebar_state
           ELSE /\ rtask' = [rtask EXCEPT ![i].pc = "done", ![i].incr = @ + 1]
                /\ wslog' = Bcast(clear_log(wslog, c), "sidebar", sugg)
                /\ cached_sidebar_state' = broadcast_cache("sidebar", sugg)
    /\ UNCHANGED <<now, user_tier, lastCheck, asks, rooms, conn, alive, recv, bc,
                   joinCache, botVars, loopVars, hfetch, envVars, dbVars,
                   lastCycle, liveHist, staleFx, lastRead, lastInbox, shutdown, listens>>

\* send_message: False when the bot is not active or anything raises (no
\* chat is open, the page fails); True after the text was typed into the
\* chat that is open and Enter pressed
send_message(ok) == ok /\ is_active /\ focus # NoChat

\* an auto-send loop that ends without a log event
after_send_silent(log, c, rest) == log

\* after a part was sent: once no part is left, the sleep of one second and
\* the "clear" log event to the room of the chat
after_send(log, c, rest) == IF rest = <<>> THEN clear_log(log, c) ELSE log

\* one turn of "for i, part in enumerate(reply_parts)": send_message is
\* awaited and what it returns is dropped; after the last part the "clear"
\* log event is broadcast
R_Send(i, ok) ==
    /\ i \in DOMAIN rtask
    /\ rtask[i].pc = "sending"
    /\ LET c == rtask[i].chat
           part == Head(rtask[i].parts)
           rest == Tail(rtask[i].parts)
           done == send_message(ok)
           id == TotalMsgs + 1
       IN  /\ rtask' = [rtask EXCEPT ![i].parts = rest,
                                     ![i].sent = Append(@, [text |-> part, ok |-> done]),
                                     ![i].pc = IF rest = <<>> THEN "done" ELSE "sending"]
           /\ wslog' = after_send(wslog, c, rest)
           /\ IF done
              THEN /\ remote' = [remote EXCEPT ![focus] = Append(@, Msg(id, TRUE, focus))]
                   /\ inbox' = MoveToTop(inbox, focus, Text(id))
                   /\ change_event' = TRUE
              ELSE UNCHANGED <<remote, inbox, change_event>>
    /\ UNCHANGED <<rlVars, wsVars, botVars, lpc, old_snapshot, lst, lfetch,
                   hfetch, dbVars, lastCycle, liveHist, staleFx, lastRead,
                   lastInbox, shutdown, listens>>

\* reply tasks that the rate limiter allowed and that are still running
InFlight == {i \in DOMAIN rtask : rtask[i].pc = "generate" /\ rtask[i].checked}

\* history_limit of generate_smart_reply
GenerationLimit == 15

\* generate_smart_reply fetches the live context of its chat:
\* bot.get_chat_history(chat_id=chat_id, limit=history_limit) bumps the
\* version, clicks the row of the chat when it finds it, scrapes the page and
\* persists what it got
R_History(i, o, ok) ==
    /\ i \in DOMAIN rtask
    /\ rtask[i].pc = "generate"
    /\ ~rtask[i].fetched
    /\ history_version < MaxFetches
    /\ LET f0 == history_begin(rtask[i].chat, GenerationLimit)
           f1 == history_nav(f0, o)
           at == nav_focus(f0, o)
           f2 == IF f1.pc = "ret" THEN f1
                 ELSE [f1 EXCEPT !.pc = "ret",
                                 !.result = IF ok /\ at # NoChat
                                            THEN LastN(remote[at], f1.limit)
                                            ELSE <<>>]
       IN  /\ history_version' = f0.ver
           /\ current_chat_id' = rtask[i].chat
           /\ focus' = at
           /\ db2' = IF f2.result # <<>>
                     THEN db2 \cup {<<f2.chat, id>> : id \in IdSet(f2.result)}
                     ELSE db2
           /\ rtask' = [rtask EXCEPT ![i].fetched = TRUE]
    /\ UNCHANGED <<rlVars, wsVars, is_active, sent_message_ids, tracked_cache,
                   loopVars, hfetch, envVars, settings, global_settings,
                   histVars>>

\* ------------------------------------------------------------------------
\* POST /assistant/ask (backend/main.py): the other client of the rate limiter
\* ------------------------------------------------------------------------
\* membership lookup and rate-limit check; blocked: HTTP 429
A_Check(tr, ok) ==
    /\ Len(asks) < MaxAsks
    /\ LET res == check_via_edge(rl, now, tr, ok)
       IN  /\ rl' = res.state
           /\ lastCheck' = IF ok THEN CheckRecord(lastCheck.n + 1, rl, now, tr)
                           ELSE lastCheck
           /\ asks' = Append(asks, IF res.allowed THEN "asking" ELSE "done")
    /\ UNCHANGED <<now, user_tier, wsVars, botVars, loopVars, hfetch, rtask,
                   envVars, dbVars, histVars>>

\* ask_assistant is back: it raised (HTTP 500, nothing is counted) or it
\* answered and the increment call follows
A_Answered(j, raised) ==
    /\ j \in DOMAIN asks
    /\ asks[j] = "asking"
    /\ asks' = [asks EXCEPT ![j] = IF raised THEN "done" ELSE "incr"]
    /\ UNCHANGED <<rl, now, user_tier, lastCheck, wsVars, botVars, loopVars,
                   hfetch, rtask, envVars, dbVars, histVars>>

\* the increment call is back
A_Incr(j, ok) ==
    /\ j \in DOMAIN asks
    /\ asks[j] = "incr"
    /\ rl' = increment_via_edge(rl, now, ok)
    /\ asks' = [asks EXCEPT ![j] = "done"]
    /\ UNCHANGED <<now, user_tier, lastCheck, wsVars, botVars, loopVars, hfetch,
                   rtask, envVars, dbVars, histVars>>

\* an hour passes, up to hour max
TickUpTo(max) ==
    /\ now < max
    /\ now' = now + 1
    /\ UNCHANGED <<rl, user_tier, lastCheck, wsVars, botVars, loopVars, hfetch,
                   rtask, asks, envVars, dbVars, histVars>>

Tick == TickUpTo(MaxTime)

\* ------------------------------------------------------------------------
\* Settings endpoints (backend/main.py) and the tracked-chat cache
\* ------------------------------------------------------------------------
\* refresh_cache: the enabled chats of the settings table, or, when the query
\* raises, the cache as it was
refresh_cache(st, tc, ok) == IF ok THEN EnabledChats(st) ELSE tc

\* check_auto_reply_limit: the paid tier is unlimited, the free tier may
\* track FreeTrackLimit chats
FreeTrackLimit == 2

check_auto_reply_limit(tr, count) == tr = "paid" \/ count < FreeTrackLimit

\* a field of a settings update: not sent, true or false
Tri == {"unset", "true", "false"}

\* a field sent as null: ChatSettingsUpdate declares its fields Optional, and
\* dict(exclude_unset=True) keeps a field that was sent, whatever its value
TriNull == Tri \cup {"null"}

\* update_dict after the dependency rules: enabled = False switches auto_reply
\* off; auto_reply = True switches enabled on when the row is not enabled
update_dict(row, en, au) ==
    LET au1 == IF en = "false" THEN "false" ELSE au
        en1 == IF au1 = "true" /\ ~row.enabled THEN "true" ELSE en
    IN  [enabled |-> en1, auto_reply |-> au1]

\* the settings row after "for key, value in update_dict.items(): setattr"
updated_row(row, en, au, ru) ==
    LET d == update_dict(row, en, au)
    IN  [exists |-> TRUE,
         enabled |-> IF d.enabled = "unset" THEN row.enabled ELSE d.enabled = "true",
         auto_reply |-> IF d.auto_reply = "unset" THEN row.auto_reply
                        ELSE d.auto_reply = "true",
         custom_rules |-> IF ru = "unset" THEN row.custom_rules ELSE ru]

\* the request is refused with 403 limit_reached: it asks for enabled = True
\* for a chat outside the cache and the limit check on the size of the cache
\* fails
limit_reached(c, en) ==
    /\ en = "true"
    /\ c \notin tracked_cache
    /\ ~check_auto_reply_limit(user_tier, Cardinality(tracked_cache))

\* PATCH /instagram/chat/{chat_id}/settings
UpdateSettings(c, en, au, ru, rok) ==
    /\ IF limit_reached(c, en)
       THEN UNCHANGED <<settings, tracked_cache>>
       ELSE /\ settings' = [settings EXCEPT ![c] = updated_row(@, en, au, ru)]
            /\ tracked_cache' = IF is_active
                                THEN refresh_cache(settings', tracked_cache, rok)
                                ELSE tracked_cache
    /\ UNCHANGED <<rlVars, wsVars, is_active, history_version, current_chat_id,
                   sent_message_ids, focus, loopVars, hfetch, rtask, envVars,
                   global_settings, db2, histVars>>

\* the rows after enable-all: every chat of the inbox is enabled with
\* auto_reply, and gets the global rules unless it has rules of its own
enable_all_rows(st, ids, rules) ==
    [c \in SettingsChats |->
        IF c \in ids
        THEN [exists |-> TRUE, enabled |-> TRUE, auto_reply |-> TRUE,
              custom_rules |-> IF st[c].custom_rules = "" THEN rules
                               ELSE st[c].custom_rules]
        ELSE st[c]]

\* POST /global/enable-all (paid tier, bot active): the global state is saved,
\* the chats get_inbox returns are enabled, the cache is refreshed and
\* global_state_changed is broadcast to "sidebar"
EnableAll(rules, inboxok, rok) ==
    /\ user_tier = "paid"
    /\ is_active
    /\ global_settings' = [auto_reply_all |-> TRUE, global_rules |-> rules]
    /\ settings' = enable_all_rows(settings,
                                   IF inboxok THEN InboxIds(inbox) ELSE {}, rules)
    /\ tracked_cache' = refresh_cache(settings', tracked_cache, rok)
    /\ wslog' = Bcast(wslog, "sidebar", Payload("global_state_changed", "", 1))
    /\ cached_sidebar_state' =
          broadcast_cache("sidebar", Payload("global_state_changed", "", 1))
    /\ UNCHANGED <<rlVars, rooms, conn, alive, recv, bc, joinCache, is_active,
                   history_version, current_chat_id, sent_message_ids, focus,
                   loopVars, hfetch, rtask, envVars, db2, lastCycle, liveHist,
                   staleFx, lastRead, lastInbox, shutdown, listens>>

\* the rows after disable-all: every row is switched off, and loses its rules
\* when they are the global rules
disable_all_rows(st, rules) ==
    [c \in SettingsChats |->
        IF st[c].exists
        THEN [exists |-> TRUE, enabled |-> FALSE, auto_reply |-> FALSE,
              custom_rules |-> IF st[c].custom_rules = rules THEN ""
                               ELSE st[c].custom_rules]
        ELSE st[c]]

\* POST /global/disable-all: the cache is refreshed only when the bot is
\* active
DisableAll(rok) ==
    /\ global_settings' = [global_settings EXCEPT !.auto_reply_all = FALSE]
    /\ settings' = disable_all_rows(settings, global_settings.global_rules)
    /\ tracked_cache' = IF is_active
                        THEN refresh_cache(settings', tracked_cache, rok)
                        ELSE tracked_cache
    /\ wslog' = Bcast(wslog, "sidebar", Payload("global_state_changed", "", 0))
    /\ cached_sidebar_state' =
          broadcast_cache("sidebar", Payload("global_state_changed", "", 0))
    /\ UNCHANGED <<rlVars, rooms, conn, alive, recv, bc, joinCache, is_active,
                   history_version, current_chat_id, sent_message_ids, focus,
                   loopVars, hfetch, rtask, envVars, db2, lastCycle, liveHist,
                   staleFx, lastRead, lastInbox, shutdown, listens>>

\* close(): the active flag is cleared (the browser is closed after it)
Close ==
    /\ is_active
    /\ is_active' = FALSE
    /\ UNCHANGED <<rlVars, wsVars, history_version, current_chat_id,
                   sent_message_ids, tracked_cache, focus, loopVars, hfetch,
                   rtask, envVars, dbVars, histVars>>

\* a loop that does not read the active flag
L_Exit_never ==
    /\ lpc = "wait"
    /\ ~is_active
    /\ UNCHANGED vars

\* the wait of the loop times out, or the loop comes back to its head, with
\* the active flag cleared: the loop ends
L_Exit ==
    /\ lpc = "wait"
    /\ ~is_active
    /\ lpc' = "off"
    /\ UNCHANGED <<rlVars, wsVars, botVars, change_event, old_snapshot, lst,
                   lfetch, hfetch, rtask, envVars, dbVars, histVars>>

\* shutdown of the server (lifespan, after the yield): close() is started
\* under wait_for(timeout=2.0); its first statement clears the active flag,
\* then it waits for the browser to close
ShutdownBegin ==
    /\ shutdown = "up"
    /\ shutdown' = "closing"
    /\ is_active' = FALSE
    /\ UNCHANGED <<rlVars, wsVars, history_version, current_chat_id,
                   sent_message_ids, tracked_cache, focus, loopVars, hfetch,
                   rtask, envVars, dbVars, wslog, lastCycle, liveHist,
                   staleFx, lastRead, lastInbox, listens>>

\* close() returns ("closed") or the two seconds are over ("timeout":
\* TimeoutError is caught and close() abandoned); the reply tasks that
\* create_task started are not waited for in either case
ShutdownEnd(o) ==
    /\ shutdown = "closing"
    /\ shutdown' = "down"
    /\ UNCHANGED <<rlVars, wsVars, botVars, loopVars, hfetch, rtask, envVars,
                   dbVars, wslog, lastCycle, liveHist, staleFx, lastRead,
                   lastInbox, listens>>

\* the remote application seen through the open browser: the page reports
\* DOM changes only while the bot has not been closed
LiveArrive(c, me) == is_active /\ Arrive(c, me)

\* ------------------------------------------------------------------------
\* Callers of InstagramBot.listen: the auto-start of the lifespan ("boot")
\* and two POST /auth/login requests ("login", "retry")
\* ------------------------------------------------------------------------
LoginCallers == {"login", "retry"}
ListenCallers == {"boot"} \cup LoginCallers

NoListens == [k \in ListenCallers |-> "idle"]

\* what a listen() call that passed its first test ends its start-up with:
\* the loop runs ("ok"), close() is called (cookies missing, the inbox
\* redirects to the login page, start-up raised: "closed"), or the first
\* inbox extraction of the loop times out and the loop returns ("timeout")
StartOutcomes == {"ok", "closed", "timeout"}

\* POST /auth/login up to its first await after the test of bot.is_active:
\* already_running, or bot.login() is awaited
LoginRequest(k) ==
    /\ k \in LoginCallers
    /\ listens[k] = "idle"
    /\ listens' = [listens EXCEPT ![k] = IF is_active THEN "returned" ELSE "login"]
    /\ UNCHANGED <<rlVars, wsVars, botVars, loopVars, hfetch, rtask, envVars,
                   dbVars, wslog, lastCycle, liveHist, staleFx, lastRead,
                   lastInbox, shutdown>>

\* bot.login() is back: on success background_tasks.add_task(bot.listen),
\* otherwise HTTP 401
LoginDone(k, success) ==
    /\ listens[k] = "login"
    /\ listens' = [listens EXCEPT ![k] = IF success THEN "queued" ELSE "returned"]
    /\ UNCHANGED <<rlVars, wsVars, botVars, loopVars, hfetch, rtask, envVars,
                   dbVars, wslog, lastCycle, liveHist, staleFx, lastRead,
                   lastInbox, shutdown>>

\* a listen() call that is not rejected whatever is_active holds
listen_begin_unguarded(active) == "returned"

\* listen() up to its first await: "Bot is already running" and return when
\* is_active is set, otherwise playwright and the browser are started
listen_begin(active) == IF active THEN "returned" ELSE "launching"

\* listen() is entered: by create_task at boot, or as the background task of
\* a login request
ListenCall(k) ==
    /\ listens[k] = IF k = "boot" THEN "idle" ELSE "queued"
    /\ listens' = [listens EXCEPT ![k] = listen_begin(is_active)]
    /\ UNCHANGED <<rlVars, wsVars, botVars, loopVars, hfetch, rtask, envVars,
                   dbVars, wslog, lastCycle, liveHist, staleFx, lastRead,
                   lastInbox, shutdown>>

\* the browser of the call is up: self.page and is_active = True are set
\* only now; then the loop runs, or close() clears is_active, or the loop
\* returns at once with is_active left set
ListenUp(k, o) ==
    /\ listens[k] = "launching"
    /\ is_active' = (o # "closed")
    /\ listens' = [listens EXCEPT ![k] = IF o = "ok" THEN "running" ELSE "returned"]
    /\ UNCHANGED <<rlVars, wsVars, history_version, current_chat_id,
                   sent_message_ids, tracked_cache, focus, loopVars, hfetch,
                   rtask, envVars, dbVars, wslog, lastCycle, liveHist, staleFx,
                   lastRead, lastInbox, shutdown>>

\* a running loop finds is_active cleared at a wait timeout and ends
ListenEnd(k) ==
    /\ listens[k] = "running"
    /\ ~is_active
    /\ listens' = [listens EXCEPT ![k] = "returned"]
    /\ UNCHANGED <<rlVars, wsVars, botVars, loopVars, hfetch, rtask, envVars,
                   dbVars, wslog, lastCycle, liveHist, staleFx, lastRead,
                   lastInbox, shutdown>>

\* ------------------------------------------------------------------------
\* Initial states and specifications
\* ------------------------------------------------------------------------
GlobalOn == [auto_reply_all |-> TRUE, global_rules |-> "g"]

Tracked(auto) == [exists |-> TRUE, enabled |-> TRUE, auto_reply |-> auto,
                  custom_rules |-> ""]

\* no websocket has connected
NoViewer ==
    /\ rooms = [r \in Rooms |-> <<>>]
    /\ conn = [s \in Subs |-> [st |-> "none", room |-> ""]]

\* the frontend has chat "a" open: its websocket is in the room of the chat
ViewerOfA ==
    /\ rooms = [r \in Rooms |-> IF r = ChatRoom("a") THEN <<"s1">> ELSE <<>>]
    /\ conn = [s \in Subs |-> IF s = "s1"
                                THEN [st |-> "open", room |-> ChatRoom("a")]
                                ELSE [st |-> "none", room |-> ""]]

\* the state after construction: no listener, one chat with one message of
\* the peer in the remote inbox
InitBase ==
    /\ now = 0
    /\ lastCheck = [n |-> 0, pre |-> NoRow, t |-> 0, tier |-> "free",
                    allowed |-> TRUE, reset |-> NoTime, post |-> NoRow]
    /\ asks = <<>>
    /\ cached_sidebar_state = NoPayload
    /\ alive = [s \in Subs |-> TRUE]
    /\ recv = [s \in Subs |-> <<>>]
    /\ bc = <<>>
    /\ joinCache = [s \in Subs |-> [cache |-> NoPayload, alive |-> FALSE]]
    /\ history_version = 0
    /\ current_chat_id = NoChat
    /\ sent_message_ids = [c \in Chats |-> {}]
    /\ change_event = FALSE
    /\ lst = IdleLst
    /\ lfetch = IdleFetch
    /\ hfetch = IdleFetch
    /\ remote = [c \in Chats |-> IF c = "a" THEN <<Msg(1, FALSE, "a")>> ELSE <<>>]
    /\ inbox = <<[id |-> "a", preview |-> Text(1)]>>
    /\ db2 = {}
    /\ wslog = {}
    /\ lastCycle = [chat |-> NoChat, hist |-> <<>>, prev |-> <<>>, read |-> <<>>,
                    new |-> <<>>, tracked |-> FALSE, nbcast |-> 0,
                    spawned |-> FALSE]
    /\ liveHist = [c \in Chats |-> <<>>]
    /\ staleFx = {}
    /\ lastRead = [c \in Chats |-> <<>>]
    /\ lastInbox = NoInbox
    /\ shutdown = "up"
    /\ listens = NoListens

\* the settings rows earlier runs left: chat "a" is tracked, "b" has none
InitSettings ==
    [c \in SettingsChats |-> IF c = "a" THEN Tracked(TRUE) ELSE NoSettings]

\* the listener is not started yet; the settings are what earlier runs
\* persisted
InitBot ==
    /\ InitBase
    /\ focus = NoChat
    /\ user_tier = "free"
    /\ rl = NoRow
    /\ is_active = FALSE
    /\ lpc = "off"
    /\ old_snapshot = EmptySnap
    /\ tracked_cache = {}
    /\ rtask = <<>>
    /\ settings = InitSettings
    /\ global_settings \in {NoGlobal, GlobalOn}

Init == InitBot /\ NoViewer

\* the read path runs next to the listener while the frontend shows chat "a"
InitH == InitBot /\ ViewerOfA

\* the remote application
Env ==
    \/ \E c \in Chats, me \in BOOLEAN : Arrive(c, me)
    \/ \E c \in Chats, m \in TypingMarkers : TypingStart(c, m)
    \/ \E c \in Chats : TypingStop(c)
    \/ DomNoise

\* the listener loop; dbs holds the outcomes of the database session of an
\* enrollment
LoopOf(dbs) ==
    \/ L_Wake
    \/ L_Settle
    \/ \E o \in {"ok", "timeout", "error"} : L_Inbox(o)
    \/ \E dbok \in dbs : L_Sidebar(dbok)
    \/ L_Debounce
    \/ \E o \in NavOutcomes : L_Nav(o)
    \/ \E ok \in BOOLEAN : L_Scrape(ok)
    \/ \E dbok \in dbs : L_Fetched(dbok)
    \/ \E dbok \in dbs : L_BcastNew(dbok)

ListenerOf(dbs) == (\E ok \in BOOLEAN : ListenStart(ok)) \/ LoopOf(dbs)

\* the listener loop with a database that works
Listener == ListenerOf({TRUE})

\* a frontend viewer of a chat room
Viewer ==
    \/ \E c \in Chats : WSAccept("s1", ChatRoom(c))
    \/ WSConnect("s1")
    \/ ClientDrop("s1")
    \/ EndpointDisconnect("s1")

\* the read path
ReadPath ==
    \/ \E c \in Chats : H_Start(c)
    \/ \E o \in NavOutcomes : H_Nav(o)
    \/ \E ok \in BOOLEAN : H_Scrape(ok)
    \/ H_Done

Next == Env \/ Listener \/ Viewer

Spec == Init /\ [][Next]_vars

NextH == Env \/ Listener \/ ReadPath

SpecH == InitH /\ [][NextH]_vars

\* the listener while chat "a", tracked and watched, receives a burst of
\* messages
NextB ==
    \/ \E me \in BOOLEAN : ArriveUpTo("a", me, MaxBurst)
    \/ DomNoise
    \/ Listener

SpecB == InitH /\ [][NextB]_vars

\* the settings endpoints next to a listener that is started and closed
InitSet ==
    /\ InitBase
    /\ NoViewer
    /\ focus = NoChat
    /\ user_tier \in Tiers
    /\ rl = NoRow
    /\ is_active = FALSE
    /\ lpc = "off"
    /\ old_snapshot = EmptySnap
    /\ tracked_cache = {}
    /\ rtask = <<>>
    /\ settings = InitSettings
    /\ global_settings = NoGlobal

\* the outcomes of the refresh an endpoint makes: none is made while the bot
\* is not active
RefreshOutcomes == IF is_active THEN BOOLEAN ELSE {TRUE}

NextSet ==
    \/ \E c \in SettingsChats, en \in Tri, au \in Tri, ru \in {"unset", "r"},
          rok \in RefreshOutcomes : UpdateSettings(c, en, au, ru, rok)
    \/ \E inboxok \in BOOLEAN, rok \in BOOLEAN : EnableAll("r", inboxok, rok)
    \/ \E rok \in RefreshOutcomes : DisableAll(rok)
    \/ \E ok \in BOOLEAN : ListenStart(ok)
    \/ Close
    \/ L_Exit

SpecSet == InitSet /\ [][NextSet]_vars

\* the settings endpoints with every value their schema admits, next to a
\* listener that enrolls chats under auto_reply_all
InitDep ==
    /\ InitBase
    /\ ViewerOfA
    /\ focus = NoChat
    /\ user_tier = "paid"
    /\ rl = NoRow
    /\ is_active = FALSE
    /\ lpc = "off"
    /\ old_snapshot = EmptySnap
    /\ tracked_cache = {}
    /\ rtask = <<>>
    /\ settings = InitSettings
    /\ global_settings = NoGlobal

NextDep ==
    \/ \E c \in Chats, en \in TriNull, au \in TriNull :
          UpdateSettings(c, en, au, "unset", TRUE)
    \/ \E inboxok \in BOOLEAN : EnableAll("r", inboxok, TRUE)
    \/ DisableAll(TRUE)
    \/ \E c \in Chats, me \in BOOLEAN : Arrive(c, me)
    \/ Listener

SpecDep == InitDep /\ [][NextDep]_vars

\* the listener under an inbox whose order changes on its own
NextI == Env \/ (\E c \in Chats : InboxReorder(c)) \/ Listener

SpecI == InitH /\ [][NextI]_vars

\* the listener with a database session that may fail during an enrollment
NextE == Env \/ ListenerOf(BOOLEAN)

SpecE == InitH /\ [][NextE]_vars

\* Rate limiter under the clock: the listener waits, a reply task has been
\* spawned for each chat, and the persisted row is one that earlier
\* generations left behind
InitCounts(tr) == {get_limits_for_tier(tr).max_requests - 1,
                   get_limits_for_tier(tr).max_requests}

InitRL ==
    /\ InitBase
    /\ NoViewer
    /\ focus = NoChat
    /\ user_tier \in Tiers
    /\ rl \in {NoRow} \cup {RateRow(k, 0, NoTime) : k \in InitCounts(user_tier)}
    /\ is_active = TRUE
    /\ lpc = "wait"
    /\ old_snapshot = Snapshot(inbox)
    /\ tracked_cache = Chats
    /\ rtask = <<NewTask("a"), NewTask("b")>>
    /\ settings = [c \in SettingsChats |-> Tracked(c = "a")]
    /\ global_settings = NoGlobal

NextRL ==
    \/ Tick
    \/ \E i \in DOMAIN rtask, tr \in {user_tier, "free"}, ok \in BOOLEAN :
          R_Check(i, tr, ok)
    \/ \E i \in DOMAIN rtask : R_Blocked(i)
    \/ \E i \in DOMAIN rtask, o \in generate_smart_reply_outcomes :
          R_Generate(i, o, <<>>)
    \/ \E tr \in {user_tier, "free"}, ok \in BOOLEAN : A_Check(tr, ok)
    \/ \E j \in DOMAIN asks, raised \in BOOLEAN : A_Answered(j, raised)
    \/ \E j \in DOMAIN asks, ok \in BOOLEAN : A_Incr(j, ok)

SpecRL == InitRL /\ [][NextRL]_vars

\* Rate limiter across the end of its window: the clock runs past the longest
\* window of the RATE_LIMITS table, and the persisted row is empty, one below
\* the limit or at the limit
InitWin ==
    /\ InitBase
    /\ NoViewer
    /\ focus = NoChat
    /\ user_tier \in Tiers
    /\ rl \in {NoRow} \cup {RateRow(k, 0, NoTime) :
                               k \in {0} \cup InitCounts(user_tier)}
    /\ is_active = TRUE
    /\ lpc = "wait"
    /\ old_snapshot = Snapshot(inbox)
    /\ tracked_cache = Chats
    /\ rtask = <<NewTask("a"), NewTask("b")>>
    /\ settings = [c \in SettingsChats |-> Tracked(c = "a")]
    /\ global_settings = NoGlobal

NextWin ==
    \/ TickUpTo(MaxClock)
    \/ \E i \in DOMAIN rtask, tr \in {user_tier, "free"}, ok \in BOOLEAN :
          R_Check(i, tr, ok)
    \/ \E i \in DOMAIN rtask : R_Blocked(i)
    \/ \E i \in DOMAIN rtask, o \in generate_smart_reply_outcomes :
          R_Generate(i, o, <<>>)
    \/ \E tr \in {user_tier, "free"}, ok \in BOOLEAN : A_Check(tr, ok)
    \/ \E j \in DOMAIN asks, raised \in BOOLEAN : A_Answered(j, raised)
    \/ \E j \in DOMAIN asks, ok \in BOOLEAN : A_Incr(j, ok)

SpecWin == InitWin /\ [][NextWin]_vars

\* Shutdown: the listener waits, chat "a" is tracked and watched, and a reply
\* task is in flight when the server is shut down. The steps of the loop are
\* all bounded waits (3 s wait, 0.5 s sleep, 4 s inbox timeout, 3 s debounce)
\* and so is the wait for close(); the reply task and the remote application
\* are under no obligation to move
InitStop ==
    /\ InitBase
    /\ ViewerOfA
    /\ focus = NoChat
    /\ user_tier = "free"
    /\ rl = NoRow
    /\ is_active = TRUE
    /\ lpc = "wait"
    /\ old_snapshot = Snapshot(inbox)
    /\ tracked_cache = {"a"}
    /\ rtask = <<NewTask("a")>>
    /\ settings = InitSettings
    /\ global_settings = NoGlobal

LoopStep == LoopOf({TRUE}) \/ L_Exit

NextStop ==
    \/ \E c \in Chats, me \in BOOLEAN : LiveArrive(c, me)
    \/ LoopStep
    \/ ShutdownBegin
    \/ \E o \in {"closed", "timeout"} : ShutdownEnd(o)
    \/ \E i \in DOMAIN rtask, ok \in BOOLEAN : R_Check(i, user_tier, ok)
    \/ \E i \in DOMAIN rtask, o \in generate_smart_reply_outcomes :
          R_Generate(i, o, <<>>)

SpecStop ==
    /\ InitStop
    /\ [][NextStop]_vars
    /\ WF_vars(LoopStep)
    /\ WF_vars(\E o \in {"closed", "timeout"} : ShutdownEnd(o))

\* The new-message pass on fetched histories drawn from records with and
\* without a message_id: the fetch of the listener for chat "a" is about to
\* return, and the read path and the remote application go on next to it
FetchedRecords == {Msg(id, me, "a") : id \in {NoId} \cup (1..MaxMsgs),
                                      me \in BOOLEAN}

FetchedHistories ==
    {<<>>} \cup {<<m>> : m \in FetchedRecords}
           \cup {<<m1, m2>> : m1 \in FetchedRecords, m2 \in FetchedRecords}

InitNM ==
    /\ now = 0
    /\ lastCheck = [n |-> 0, pre |-> NoRow, t |-> 0, tier |-> "free",
                    allowed |-> TRUE, reset |-> NoTime, post |-> NoRow]
    /\ asks = <<>>
    /\ cached_sidebar_state = NoPayload
    /\ alive = [s \in Subs |-> TRUE]
    /\ recv = [s \in Subs |-> <<>>]
    /\ bc = <<>>
    /\ joinCache = [s \in Subs |-> [cache |-> NoPayload, alive |-> FALSE]]
    /\ ViewerOfA
    /\ history_version = 1
    /\ current_chat_id = "a"
    /\ \E S \in SUBSET (1..MaxMsgs) :
          /\ sent_message_ids = [c \in Chats |-> IF c = "a" THEN S ELSE {}]
          /\ \E v \in BOOLEAN :
                lst = [IdleLst EXCEPT !.cur = "a", !.is_tracked = TRUE,
                                      !.has_viewer = v, !.seen0 = S]
    /\ change_event = FALSE
    /\ \E H \in FetchedHistories :
          lfetch = [pc |-> "ret", chat |-> "a", ver |-> 1,
                    limit |-> ListenerLimit, result |-> H]
    /\ hfetch = IdleFetch
    /\ remote = [c \in Chats |-> IF c = "a" THEN <<Msg(1, FALSE, "a")>> ELSE <<>>]
    /\ inbox = <<[id |-> "a", preview |-> Text(1)]>>
    /\ db2 = {}
    /\ wslog = {}
    /\ lastCycle = [chat |-> NoChat, hist |-> <<>>, prev |-> <<>>, read |-> <<>>,
                    new |-> <<>>, tracked |-> FALSE, nbcast |-> 0,
                    spawned |-> FALSE]
    /\ liveHist = [c \in Chats |-> <<>>]
    /\ staleFx = {}
    /\ lastRead = [c \in Chats |-> <<>>]
    /\ lastInbox = NoInbox
    /\ shutdown = "up"
    /\ listens = NoListens
    /\ focus = "a"
    /\ user_tier = "free"
    /\ rl = NoRow
    /\ is_active = TRUE
    /\ lpc = "fetching"
    /\ old_snapshot = Snapshot(inbox)
    /\ tracked_cache = {"a"}
    /\ rtask = <<>>
    /\ settings = InitSettings
    /\ global_settings = NoGlobal

NextNM ==
    \/ \E me \in BOOLEAN : Arrive("a", me)
    \/ ReadPath
    \/ L_Fetched(TRUE)
    \/ L_BcastNew(TRUE)

SpecNM == InitNM /\ [][NextNM]_vars

\* The reply task from its start to its end, for every value the generation
\* call is declared to end with: a task for chat "a" (auto_reply on) and one
\* for chat "b" (auto_reply off) run while one of the chats is open
InitTask ==
    /\ InitBase
    /\ NoViewer
    /\ focus \in Chats
    /\ user_tier = "free"
    /\ rl \in {NoRow} \cup {RateRow(k, 0, NoTime) : k \in InitCounts("free")}
    /\ is_active = TRUE
    /\ lpc = "wait"
    /\ old_snapshot = Snapshot(inbox)
    /\ tracked_cache = Chats
    /\ rtask = <<NewTask("a"), NewTask("b")>>
    /\ settings = [c \in SettingsChats |-> Tracked(c = "a")]
    /\ global_settings = NoGlobal

NextTask ==
    \/ \E i \in DOMAIN rtask, ok \in BOOLEAN : R_Check(i, user_tier, ok)
    \/ \E i \in DOMAIN rtask : R_Blocked(i)
    \/ \E i \in DOMAIN rtask, o \in GenOutcomes, text \in ReplyTexts :
          R_Generate(i, o, IF o = "text" THEN text ELSE <<>>)
    \/ \E i \in DOMAIN rtask, ok \in BOOLEAN : R_Incr(i, ok)
    \/ \E i \in DOMAIN rtask, ok \in BOOLEAN : R_Send(i, ok)

SpecTask == InitTask /\ [][NextTask]_vars

\* Reply tasks of two chats with auto_reply on, each fetching the live
\* context of its chat before it generates, while the read path loads
\* histories on the same page; the limiter has no row yet and refuses nothing
InitSend ==
    /\ InitBase
    /\ NoViewer
    /\ focus = NoChat
    /\ user_tier = "paid"
    /\ rl = NoRow
    /\ is_active = TRUE
    /\ lpc = "wait"
    /\ old_snapshot = Snapshot(inbox)
    /\ tracked_cache = Chats
    /\ rtask = <<NewTask("a"), NewTask("b")>>
    /\ settings = [c \in SettingsChats |-> Tracked(c \in Chats)]
    /\ global_settings = NoGlobal

NextSend ==
    \/ \E i \in DOMAIN rtask, ok \in BOOLEAN : R_Check(i, user_tier, ok)
    \/ \E i \in DOMAIN rtask, o \in NavOutcomes, ok \in BOOLEAN : R_History(i, o, ok)
    \/ \E i \in DOMAIN rtask, o \in GenOutcomes :
          /\ o = "text" => rtask[i].fetched
          /\ R_Generate(i, o, IF o = "text" THEN <<"l1">> ELSE <<>>)
    \/ \E i \in DOMAIN rtask, ok \in BOOLEAN : R_Incr(i, ok)
    \/ \E i \in DOMAIN rtask, ok \in BOOLEAN : R_Send(i, ok)
    \/ ReadPath

SpecSend == InitSend /\ [][NextSend]_vars

\* The listener together with the reply tasks it spawns: chat "a", tracked
\* with auto_reply on, receives messages in successive cycles while the
\* tasks spawned for it run
Replies ==
    \/ \E i \in DOMAIN rtask, ok \in BOOLEAN : R_Check(i, user_tier, ok)
    \/ \E i \in DOMAIN rtask, o \in GenOutcomes :
          R_Generate(i, o, IF o = "text" THEN <<"l1">> ELSE <<>>)
    \/ \E i \in DOMAIN rtask, ok \in BOOLEAN : R_Incr(i, ok)
    \/ \E i \in DOMAIN rtask, ok \in BOOLEAN : R_Send(i, ok)

NextPar ==
    \/ \E me \in BOOLEAN : ArriveUpTo("a", me, MaxBurst)
    \/ Listener
    \/ Replies

SpecPar == InitH /\ [][NextPar]_vars

\* listen() called by the auto-start and by two login requests
NextListen ==
    \/ \E k \in LoginCallers : LoginRequest(k)
    \/ \E k \in LoginCallers, success \in BOOLEAN : LoginDone(k, success)
    \/ \E k \in ListenCallers : ListenCall(k)
    \/ \E k \in ListenCallers, o \in StartOutcomes : ListenUp(k, o)
    \/ \E k \in ListenCallers : ListenEnd(k)

SpecListen == Init /\ [][NextListen]_vars

\* the loop of the listener is running: it took its initial snapshot of the
\* inbox and waits for a change signal; chat "a" is tracked and watched
InitLoop ==
    /\ InitBase
    /\ ViewerOfA
    /\ focus = NoChat
    /\ user_tier = "free"
    /\ rl = NoRow
    /\ is_active = TRUE
    /\ lpc = "wait"
    /\ old_snapshot = Snapshot(inbox)
    /\ tracked_cache = {"a"}
    /\ rtask = <<>>
    /\ settings = InitSettings
    /\ global_settings = NoGlobal

\* the running loop while the peer of a chat starts and stops typing and no
\* message arrives: every preview is the typing marker or the text it had
NextTyping ==
    \/ \E c \in Chats, m \in TypingMarkers : TypingStart(c, m)
    \/ \E c \in Chats : TypingStop(c)
    \/ DomNoise
    \/ LoopOf({TRUE})

SpecTyping == InitLoop /\ [][NextTyping]_vars

\* The reply tasks under fairness: every await of a task is bounded (the
\* edge calls carry timeouts, send_message waits at most five seconds for the
\* input box, the sleeps are fixed), so a task that can take a step takes it
TaskStep(i) ==
    \/ \E ok \in BOOLEAN : R_Check(i, user_tier, ok)
    \/ R_Blocked(i)
    \/ \E o \in GenOutcomes, text \in ReplyTexts :
          R_Generate(i, o, IF o = "text" THEN text ELSE <<>>)
    \/ \E ok \in BOOLEAN : R_Incr(i, ok)
    \/ \E ok \in BOOLEAN : R_Send(i, ok)

SpecTaskLive ==
    /\ InitTask
    /\ [][NextTask]_vars
    /\ \A i \in 1..MaxTasks : WF_vars(TaskStep(i))

\* The running loop under fairness while messages arrive and the page
\* reports changes: every step of the loop is a bounded wait (3 s wait, 0.5 s
\* sleep, 4 s inbox timeout, 3 s debounce, the fetch), the remote application
\* is under no obligation to move
NextSig ==
    \/ \E c \in Chats, me \in BOOLEAN : Arrive(c, me)
    \/ DomNoise
    \/ LoopOf({TRUE})

SpecSig == InitLoop /\ [][NextSig]_vars /\ WF_vars(LoopOf({TRUE}))

\* ConnectionManager alone: websockets join and leave two rooms while
\* broadcast calls run
InitWS ==
    /\ InitBase
    /\ NoViewer
    /\ focus = NoChat
    /\ user_tier = "free"
    /\ rl = NoRow
    /\ is_active = FALSE
    /\ lpc = "off"
    /\ old_snapshot = EmptySnap
    /\ tracked_cache = {}
    /\ rtask = <<>>
    /\ settings = [c \in SettingsChats |-> NoSettings]
    /\ global_settings = NoGlobal

WSRooms == {"sidebar", ChatRoom("a")}

NextWS ==
    \/ \E s \in Subs, r \in WSRooms : WSAccept(s, r)
    \/ \E s \in Subs : WSConnect(s)
    \/ \E s \in Subs : ClientDrop(s)
    \/ \E s \in Subs : EndpointDisconnect(s)
    \/ \E r \in WSRooms : BcStart(r, "event")
    \/ \E i \in 1..MaxBcasts : BcStep(i)

SpecWS == InitWS /\ [][NextWS]_vars

\* ------------------------------------------------------------------------
\* Properties
\* ------------------------------------------------------------------------
\* C1: a get_chat_history call whose captured version differs from
\* history_version when it completes (another fetch, for a different chat,
\* has superseded it) has no effect at all: its messages are not persisted,
\* not added to sent_message_ids of any chat and not broadcast to any room.
C1_StaleFetchHasNoEffect == staleFx = {}

\* C2: when the listener processes for a chat the same history as in its
\* previous cycle for that chat, the cycle computes an empty new-message
\* list, broadcasts no new_message event and spawns no reply task.
C2_RepeatedHistoryYieldsNothing ==
    (lastCycle.chat # NoChat /\ lastCycle.hist = lastCycle.prev)
        => /\ lastCycle.new = <<>>
           /\ lastCycle.nbcast = 0
           /\ ~lastCycle.spawned

\* the listener has processed the same history of a tracked chat twice in a row
C2_Witness ==
    /\ lastCycle.chat # NoChat
    /\ lastCycle.hist = lastCycle.prev
    /\ lastCycle.tracked

\* C3: after the read path returned a history for a chat, every message_id
\* of it is in sent_message_ids of the chat, and a listener cycle that then
\* fetches the same messages reports no new message and broadcasts none.
C3_ReadPathPreseeds ==
    /\ \A c \in Chats : Members(lastRead[c]) \subseteq sent_message_ids[c]
    /\ (lastCycle.chat # NoChat /\ lastCycle.hist = lastCycle.read)
          => (lastCycle.new = <<>> /\ lastCycle.nbcast = 0)

\* the listener fetched, for a chat it had not processed before, exactly the
\* history the read path had returned
C3_Witness ==
    /\ lastCycle.chat # NoChat
    /\ lastCycle.hist = lastCycle.read
    /\ lastCycle.prev = <<>>

\* C4: for the snapshots (old, new) the listener compares, chat c is in the
\* changed list iff c is a key of both, old[c] # new[c] and new[c] is not the
\* typing marker in any letter case; a chat present only in new is not
\* changed, and a difference that is only a typing marker changes nothing.
C4_ChangedIff ==
    lpc = "sidebar" =>
        \A c \in Chats :
            c \in Members(lst.changed)
                <=> /\ old_snapshot[c] # Absent
                    /\ lst.new_snapshot[c] # Absent
                    /\ old_snapshot[c] # lst.new_snapshot[c]
                    /\ lst.new_snapshot[c] \notin {"typing...", "Typing...", "TYPING..."}

\* two snapshots differ in a new chat and in a typing marker only, and the
\* changed list is empty
C4_Witness ==
    /\ lpc = "sidebar"
    /\ lst.changed = <<>>
    /\ \E c \in Chats : old_snapshot[c] = Absent /\ lst.new_snapshot[c] # Absent
    /\ \E c \in Chats : /\ old_snapshot[c] # Absent
                        /\ old_snapshot[c] # lst.new_snapshot[c]
                        /\ lst.new_snapshot[c] = "Typing..."

\* C5: the listener spawns a reply task for chat c only in a cycle whose
\* fetch for c yielded a non-empty new-message list whose last element is not
\* self-authored, and only when c is tracked.
C5_SpawnOnlyForPeerMessage ==
    [][rtask' # rtask =>
          /\ rtask' = Append(rtask, SpawnTask(lastCycle'.chat, lastCycle'.new))
          /\ lastCycle'.new # <<>>
          /\ ~lastCycle'.new[Len(lastCycle'.new)].is_me
          /\ lastCycle'.tracked]_vars

\* a reply task was spawned in a cycle that found more than one new message
C5_Witness ==
    /\ rtask # <<>>
    /\ lastCycle.spawned
    /\ Len(lastCycle.new) > 1

\* C6: check_rate_limit decides in this order: (a) in cooldown: blocked,
\* reset = cooldown_until, row unchanged; (b) cooldown over: count 0, window
\* starts now, cooldown cleared, allowed; (c) window over: count 0, window
\* starts now, allowed; (d) count >= max: cooldown_until = now + cooldown,
\* blocked with that reset; (e) otherwise allowed, row unchanged.
C6_CheckFollowsReference ==
    LET k == lastCheck
        st == k.pre
        lim == get_limits_for_tier(k.tier)
        cooling == st.cooldown_until # NoTime
        a == cooling /\ k.t < st.cooldown_until
        b == cooling /\ k.t >= st.cooldown_until
        c == ~cooling /\ k.t >= st.window_start + lim.window_hours
        d == ~cooling /\ k.t < st.window_start + lim.window_hours
                      /\ st.request_count >= lim.max_requests
    IN  (k.n > 0 /\ st.exists) =>
           /\ a => (~k.allowed /\ k.reset = st.cooldown_until /\ k.post = st)
           /\ b => (k.allowed /\ k.post = RateRow(0, k.t, NoTime))
           /\ c => (k.allowed /\ k.post = RateRow(0, k.t, NoTime))
           /\ d => /\ ~k.allowed
                   /\ k.reset = k.t + lim.cooldown_hours
                   /\ k.post = RateRow(st.request_count, st.window_start,
                                       k.t + lim.cooldown_hours)
           /\ ~(a \/ b \/ c \/ d) => (k.allowed /\ k.post = st)

\* a check found the count at the limit inside the window and started the
\* cooldown
C6_Witness ==
    /\ lastCheck.n > 0
    /\ lastCheck.pre.exists
    /\ lastCheck.pre.cooldown_until = NoTime
    /\ ~lastCheck.allowed

\* C7: at request_count = max inside the window with no cooldown, the check
\* is blocked and sets cooldown_until = now + cooldown; a check at a time
\* before cooldown_until is blocked with that same cooldown_until and leaves
\* request_count alone, also when the window has expired meanwhile.
C7_CooldownHolds ==
    LET k == lastCheck
        st == k.pre
        lim == get_limits_for_tier(k.tier)
    IN  (k.n > 0 /\ st.exists) =>
           /\ ( /\ st.cooldown_until = NoTime
                /\ st.request_count = lim.max_requests
                /\ k.t < st.window_start + lim.window_hours )
                 => /\ ~k.allowed
                    /\ k.post.cooldown_until = k.t + lim.cooldown_hours
                    /\ k.post.request_count = st.request_count
           /\ (st.cooldown_until # NoTime /\ k.t < st.cooldown_until)
                 => /\ ~k.allowed
                    /\ k.reset = st.cooldown_until
                    /\ k.post.cooldown_until = st.cooldown_until
                    /\ k.post.request_count = st.request_count

\* a check during the cooldown, after the window in which the limit was
\* reached has expired
C7_Witness ==
    /\ lastCheck.n > 1
    /\ lastCheck.pre.exists
    /\ lastCheck.pre.cooldown_until # NoTime
    /\ lastCheck.t < lastCheck.pre.cooldown_until
    /\ lastCheck.t >= lastCheck.pre.window_start
                        + get_limits_for_tier(lastCheck.tier).window_hours
    /\ ~lastCheck.allowed

\* C8: check and increment act as one atomic read-modify-write: the reply
\* tasks the rate limiter has allowed and that are still running never
\* outnumber the requests left under max_requests(tier).
C8_CheckAndIncrementAtomic ==
    \A i \in InFlight :
        rl.request_count + Cardinality(InFlight)
            <= get_limits_for_tier(rtask[i].tier).max_requests

\* C9: when a broadcast fails for one subscriber, every other subscriber that
\* was in the room when the broadcast started, has not left and can be
\* reached has the payload of that broadcast once the broadcast is over.
C9_FailureSkipsNobody ==
    \A i \in DOMAIN bc :
        (bc[i].done /\ bc[i].failed # {} /\ ~bc[i].churn) =>
            \A s \in bc[i].start \ bc[i].failed :
                (alive[s] /\ s \in Members(rooms[bc[i].room]))
                    => bc[i].payload \in Members(recv[s])

\* C10: a websocket that joins the "sidebar" room while a payload is cached
\* receives the cached payload first, before any event of a broadcast.
C10_CachedPayloadFirst ==
    \A s \in Subs :
        joinCache[s].cache # NoPayload =>
            /\ joinCache[s].alive => recv[s] # <<>>
            /\ recv[s] # <<>> => recv[s][1] = joinCache[s].cache

\* a websocket joined with a cached payload and then got an event of a
\* later broadcast
C10_Witness ==
    \E s \in Subs :
        /\ joinCache[s].cache # NoPayload
        /\ Len(recv[s]) > 1
        /\ recv[s][2] # joinCache[s].cache

\* C11: the payload of a broadcast is delivered to a subscriber at most once,
\* under every interleaving of join, leave and broadcast; a websocket that
\* joins "sidebar" during a sidebar broadcast does not get the payload both
\* as the cache on join and from the broadcast in progress.
C11_DeliveredAtMostOnce ==
    \A i \in DOMAIN bc : \A s \in Subs :
        Cardinality({k \in DOMAIN recv[s] : recv[s][k] = bc[i].payload}) <= 1

\* the events of one kind that the log holds for a room
EventsIn(room, ev) ==
    {e.payload : e \in {x \in wslog : x.room = room /\ x.payload.event = ev}}

\* the task ended after a reply was generated for a chat without auto_reply
Suggested(i) ==
    /\ rtask[i].pc = "done"
    /\ rtask[i].reply # <<>>
    /\ ~auto_send(settings, rtask[i].chat)

TrimmedLines(text) ==
    LET keep == {k \in DOMAIN text : Strip(text[k]) # ""}
        RECURSIVE upto(_)
        upto(n) == IF n = 0 THEN <<>>
                   ELSE IF n \in keep THEN Append(upto(n - 1), Strip(text[n]))
                   ELSE upto(n - 1)
    IN  upto(Len(text))

\* the texts of the sends a task has attempted, in their order
Attempted(i) == [k \in DOMAIN rtask[i].sent |-> rtask[i].sent[k].text]

\* C14: when a reply was generated for a chat whose auto_reply is on, the
\* task attempts one send for each trimmed non-empty line of the reply, in
\* the order of the lines and one after the other, and broadcasts no
\* suggestion event for the chat
C14_AutoSendOnePerLine ==
    \A i \in DOMAIN rtask :
        (rtask[i].reply # <<>> /\ auto_send(settings, rtask[i].chat)) =>
            /\ rtask[i].pc \in {"incr", "sending", "done"}
            /\ rtask[i].pc = "incr" => rtask[i].sent = <<>>
            /\ rtask[i].pc = "sending" =>
                   Attempted(i) \o rtask[i].parts = TrimmedLines(rtask[i].reply)
            /\ rtask[i].pc = "done" => Attempted(i) = TrimmedLines(rtask[i].reply)
            /\ \A k \in EventsIn("sidebar", "suggestion")
                        \cup EventsIn(ChatRoom(rtask[i].chat), "suggestion") :
                   k.chat # rtask[i].chat

C14_Witness ==
    \E i \in DOMAIN rtask :
        /\ rtask[i].pc = "done"
        /\ auto_send(settings, rtask[i].chat)
        /\ Len(rtask[i].reply) = 3
        /\ Attempted(i) = <<"l1", "l2">>

\* the rate limiter blocked the task
Blocked(i) == rtask[i].pc \in {"blocked", "done"} /\ rtask[i].gen = 0

\* C15: a task that the rate limiter blocked broadcasts a rate-limited
\* notice that carries the reset time to the room of the chat and to the
\* "sidebar" room, and neither generates, nor counts, nor sends
C15_BlockedNoticeCarriesReset ==
    \A i \in DOMAIN rtask :
        (Blocked(i) /\ rtask[i].pc = "done") =>
            /\ \E k \in EventsIn(ChatRoom(rtask[i].chat), "log:rate_limited") :
                   k.arg = rtask[i].reset
            /\ \E k \in EventsIn("sidebar", "rate_limited") :
                   /\ k.chat = rtask[i].chat
                   /\ k.arg = rtask[i].reset
            /\ rtask[i].gen = 0 /\ rtask[i].incr = 0 /\ rtask[i].sent = <<>>

\* the generation was called and gave no reply
Failed(i) ==
    rtask[i].pc = "done" /\ rtask[i].gen = 1 /\ rtask[i].reply = <<>>

\* C16: a task whose generation fails broadcasts the "clear" log event to the
\* room of the chat, has called the generation once, sends nothing, suggests
\* nothing and leaves the request counter alone
C16_FailedGenerationClears ==
    \A i \in DOMAIN rtask :
        /\ rtask[i].gen <= 1
        /\ Failed(i) =>
               /\ EventsIn(ChatRoom(rtask[i].chat), "log:clear") # {}
               /\ rtask[i].sent = <<>>
               /\ rtask[i].incr = 0
               /\ \A k \in EventsIn("sidebar", "suggestion")
                           \cup EventsIn(ChatRoom(rtask[i].chat), "suggestion") :
                      k.chat # rtask[i].chat

C16_Witness ==
    \E i \in DOMAIN rtask :
        /\ Failed(i)
        /\ rtask[i].checked
        /\ EventsIn(ChatRoom(rtask[i].chat), "log:generating") # {}

\* C17: a task counts a request at most once, and only after the generation
\* has given a reply: a blocked task and a task without a reply count nothing
C17_CountedOnceAfterReply ==
    \A i \in DOMAIN rtask :
        /\ rtask[i].incr <= 1
        /\ rtask[i].incr = 1 => (rtask[i].gen = 1 /\ rtask[i].reply # <<>>)
        /\ (rtask[i].pc \in {"sending", "done"} /\ rtask[i].reply # <<>>) =>
               rtask[i].incr = 1

C17_Witness ==
    \E i \in DOMAIN rtask :
        /\ rtask[i].pc = "done"
        /\ rtask[i].incr = 1
        /\ rl.exists
        /\ rl.request_count >= 1

\* the listener is between the scan of a changed chat and its reply decision
InCycle == lpc \in {"debounce", "fetching", "bcast_new"}

\* C18: a chat that the scan enrolled is in tracked_cache and its settings
\* row is enabled with the global rules as custom_rules; and a chat is
\* processed as tracked only while it is in tracked_cache and enabled in the
\* settings, also when the database fails during the enrollment
C18_TrackedMeansEnrolled ==
    InCycle =>
        /\ lst.enrolled =>
               /\ lst.is_tracked
               /\ lst.cur \in tracked_cache
               /\ settings[lst.cur].exists /\ settings[lst.cur].enabled
               /\ settings[lst.cur].custom_rules = lst.g.global_rules
        /\ lst.is_tracked =>
               /\ lst.cur \in tracked_cache
               /\ lst.cur \in EnabledChats(settings)

\* the new_message events the log holds for a chat
Delivered(c) == {k.arg : k \in EventsIn(ChatRoom(c), "new_message")}

C20_EnrolledOnlyAfterFetch ==
    (InCycle /\ lst.enrolled) =>
        /\ lpc = "bcast_new"
        /\ lst.new # <<>>
        /\ ~lst.new[Len(lst.new)].is_me

\* the loop has extracted an inbox that is not the one it extracted before
FreshInboxDiffers == lastInbox.o = "ok" /\ lastInbox.differs

\* C21: whenever the inbox the loop extracts differs from the one it
\* extracted before, a pure reordering included, the loop broadcasts a
\* sidebar_update to "sidebar" in that cycle
C21_AnyDifferenceIsBroadcast ==
    FreshInboxDiffers => lastInbox.bcast

\* the last inbox extraction of the loop failed
ExtractionFailed == lastInbox.o \in {"timeout", "error"}

\* C22: a cycle whose inbox extraction fails (a timeout, or an error inside
\* get_inbox) is skipped: nothing is broadcast and the previous snapshot
\* stays what it was, so the next cycle diffs against it
C22_FailedExtractionSkipsCycle ==
    ExtractionFailed =>
        /\ ~lastInbox.bcast
        /\ old_snapshot = Snapshot(lastInbox.cur)

\* the reply tasks that were spawned for a chat
TasksOf(c) == {i \in DOMAIN rtask : rtask[i].chat = c}

C24_CacheSubsetOfEnabled ==
    tracked_cache \subseteq EnabledChats(settings)

\* C29: on the free tier the settings table never has more than two enabled
\* chats, whatever fields the update requests carry
C29_FreeTierTracksAtMostTwo ==
    user_tier = "free" => Cardinality(EnabledChats(settings)) <= FreeTrackLimit


\* ------------------------------------------------------------------------
\* C25: with no cooldown set on the row, a check strictly before
\* window_start + window_hours of the tier leaves window_start and
\* request_count as they were, and a check after that instant is allowed and
\* leaves request_count = 0 and window_start = the time of the check,
\* whatever the count was
\* ------------------------------------------------------------------------
WindowEnd == lastCheck.pre.window_start
                 + get_limits_for_tier(lastCheck.tier).window_hours

CheckedOpenRow ==
    /\ lastCheck.n > 0
    /\ lastCheck.pre.exists
    /\ lastCheck.pre.cooldown_until = NoTime

C25_WindowBoundary ==
    CheckedOpenRow =>
        /\ lastCheck.t < WindowEnd =>
              /\ lastCheck.post.window_start = lastCheck.pre.window_start
              /\ lastCheck.post.request_count = lastCheck.pre.request_count
        /\ lastCheck.t > WindowEnd =>
              /\ lastCheck.allowed
              /\ lastCheck.post.request_count = 0
              /\ lastCheck.post.window_start = lastCheck.t

\* a row at its limit is checked one hour after the end of its window
C25_Witness ==
    /\ CheckedOpenRow
    /\ lastCheck.t = WindowEnd + 1
    /\ lastCheck.pre.request_count
           >= get_limits_for_tier(lastCheck.tier).max_requests
    /\ lastCheck.allowed
    /\ lastCheck.post.request_count = 0

\* ------------------------------------------------------------------------
\* C26: when the rate-limit check call fails, the check counts as allowed:
\* the reply task goes on to the generation and broadcasts no rate-limited
\* notice, and the user-triggered request goes on to its generation instead
\* of being refused
\* ------------------------------------------------------------------------
\* the rate-limited notices the log holds, to the room of a chat and to the
\* sidebar
Notices(c) ==
    EventsIn(ChatRoom(c), "log:rate_limited")
        \cup {k \in EventsIn("sidebar", "rate_limited") : k.chat = c}

\* task i leaves its check in this step, and the check call failed
CheckFailedStep(i) ==
    /\ rtask[i].pc = "start"
    /\ rtask'[i].pc # "start"
    /\ ~rtask'[i].checked

\* a request to the assistant is admitted or refused in this step, and the
\* check call failed (no check_rate_limit call was made)
AskCheckFailedStep ==
    /\ Len(asks') = Len(asks) + 1
    /\ lastCheck'.n = lastCheck.n

FirstNew(H, seen) ==
    {k \in DOMAIN H :
        /\ H[k].message_id # NoId
        /\ H[k].message_id \notin seen
        /\ \A j \in 1..(k - 1) : H[j].message_id # H[k].message_id}

\* the records of H at the positions K, in the order of H
RECURSIVE Pick(_, _)
Pick(H, K) ==
    IF K = {} THEN <<>>
    ELSE LET k == CHOOSE x \in K : \A y \in K : x <= y
         IN  <<H[k]>> \o Pick(H, K \ {k})

\* the fetch of the listener returns to the loop in this step
PassStep == lpc = "fetching" /\ lfetch.pc = "ret" /\ lfetch' = IdleFetch

\* what the pass of this step does, against the tracker content seen
PassAgrees(seen) ==
    \E c \in Chats, v \in BOOLEAN, H \in {lfetch.result} :
        /\ c = lst.cur
        /\ v = lst.has_viewer
        /\ \E exp \in {Pick(H, FirstNew(H, seen))} :
              \E ids \in {{exp[i].message_id : i \in DOMAIN exp}} :
                 /\ H # <<>> => lastCycle'.new = exp
                 /\ sent_message_ids' =
                       [sent_message_ids EXCEPT ![c] = seen \cup ids]
                 /\ Delivered(c)' \ Delivered(c) \subseteq ids
                 /\ v => ids \subseteq Delivered(c)'
                 /\ ~v => wslog' = wslog
                 /\ NoId \notin sent_message_ids'[c] \cup Delivered(c)'

LoopRunning == lpc \notin {"off", "ended"}

\* a reply task that create_task started has not finished
TaskPending == \E i \in DOMAIN rtask : rtask[i].pc # "done"

C28_CloseEndsLoop ==
    /\ (~is_active /\ LoopRunning) ~> ~LoopRunning
    /\ (shutdown = "closing") ~> (shutdown = "down")

\* the loop has ended and the shutdown is over while the reply task is still
\* waiting for its generation
C28_Witness ==
    /\ ~is_active
    /\ lpc = "off"
    /\ shutdown = "down"
    /\ TaskPending
    /\ \E i \in DOMAIN rtask : rtask[i].pc = "generate"

\* ------------------------------------------------------------------------
\* C30: once a sidebar_update has been broadcast, the payload kept for the
\* subscribers that join the sidebar room later is a sidebar_update: no
\* broadcast of another event to the sidebar room takes its place
\* ------------------------------------------------------------------------
C30_CacheKeepsInboxState ==
    EventsIn("sidebar", "sidebar_update") # {} =>
        cached_sidebar_state.event = "sidebar_update"

\* ------------------------------------------------------------------------
\* C31: in every state of the settings table a row with auto_reply set has
\* enabled set
\* ------------------------------------------------------------------------
C31_AutoReplyImpliesEnabled ==
    \A c \in SettingsChats :
        (settings[c].exists /\ settings[c].auto_reply) => settings[c].enabled

\* ------------------------------------------------------------------------
\* C32: is_active is set only while the listener loop runs: when the loop
\* has returned, by whatever path, or was never started, is_active is false
\* ------------------------------------------------------------------------
C32_ActiveOnlyWhileLoopRuns == ~LoopRunning => ~is_active

\* ------------------------------------------------------------------------
\* C33: every message a reply task sends is typed into the chat of the task:
\* when send_message delivers a part for the task of chat c, the chat open on
\* the page is c
\* ------------------------------------------------------------------------
\* send_message of task i returned True in this step
Delivers(i) ==
    /\ i \in DOMAIN rtask
    /\ rtask[i].pc = "sending"
    /\ Len(rtask'[i].sent) = Len(rtask[i].sent) + 1
    /\ rtask'[i].sent[Len(rtask'[i].sent)].ok

C34_PersistedUnderOwnChat ==
    \A e \in db2 : e[2] \in IdSet(remote[e[1]])

\* ------------------------------------------------------------------------
\* C35: at most one reply task per chat is in flight: two tasks that have
\* not finished are tasks of different chats
\* ------------------------------------------------------------------------
Unfinished(i) == rtask[i].pc # "done"

C35_OneTaskPerChat ==
    \A i, j \in DOMAIN rtask :
        (i # j /\ Unfinished(i) /\ Unfinished(j)) => rtask[i].chat # rtask[j].chat

\* ------------------------------------------------------------------------
\* C36: at most one listener loop and one browser per bot instance: of the
\* listen() calls made by the auto-start and the login requests, at most one
\* is launching its browser or running its loop at any time
\* ------------------------------------------------------------------------
Launched == {k \in ListenCallers : listens[k] \in {"launching", "running"}}

C36_OneListener == Cardinality(Launched) <= 1

\* ------------------------------------------------------------------------
\* C37: a preview that goes from its text to the typing marker and back to
\* the same text, with no new message, never makes the chat a changed chat:
\* no debounce, history fetch or reply cycle starts for it
\* ------------------------------------------------------------------------
C37_TypingRoundTripIsNoChange ==
    /\ lst.changed = <<>>
    /\ lst.cur = NoChat
    /\ lpc \notin {"debounce", "fetching", "bcast"}

\* ------------------------------------------------------------------------
\* C38: a reply task that broadcast the "generating" log event to the room
\* of its chat eventually broadcasts the "clear" log event to the same room,
\* and no task has ended with "generating" broadcast and "clear" not
\* ------------------------------------------------------------------------
Generating(c) == EventsIn(ChatRoom(c), "log:generating") # {}
Cleared(c) == EventsIn(ChatRoom(c), "log:clear") # {}

TaskOf(c) == CHOOSE i \in DOMAIN rtask : rtask[i].chat = c

C38_GeneratingIsCleared ==
    /\ \A c \in Chats : Generating(c) ~> Cleared(c)
    /\ [](\A c \in Chats :
            (Generating(c) /\ rtask[TaskOf(c)].pc = "done") => Cleared(c))

\* task "a" ended after an auto-send and task "b" after a suggestion, both
\* with "generating" and "clear" broadcast
C38_Witness ==
    /\ \A c \in Chats : Generating(c) /\ Cleared(c) /\ rtask[TaskOf(c)].pc = "done"
    /\ rtask[TaskOf("a")].sent # <<>>
    /\ EventsIn("sidebar", "suggestion") # {}

\* ------------------------------------------------------------------------
\* C39: no change signal is lost while the listener is active: the event is
\* cleared only by the settle step that comes right before an extraction,
\* and whenever the event is set an extraction is started afterwards and
\* performed
\* ------------------------------------------------------------------------
C39_NoSignalLost ==
    /\ [][(change_event /\ ~change_event') => (lpc = "settle" /\ lpc' = "inbox")]_vars
    /\ (is_active /\ change_event /\ lpc # "inbox") ~> (lpc = "inbox")
    /\ (is_active /\ lpc = "inbox") ~> (lpc # "inbox" /\ lastInbox.o # "none")

\* a signal raised while the loop is busy with a history fetch is still set
C39_Witness ==
    /\ is_active
    /\ change_event
    /\ lpc = "fetching"
    /\ lastInbox.o = "ok"

\* ------------------------------------------------------------------------
\* C40: in a tracked chat, a message of the peer that is the latest message
\* of the chat gets a reply task: once the listener has finished a cycle on a
\* history that ends with such a message, a task triggered by that message
\* has been spawned for the chat
\* ------------------------------------------------------------------------
IsPeerMessage(id) ==
    \E c \in Chats : \E k \in DOMAIN remote[c] :
        remote[c][k].message_id = id /\ ~remote[c][k].is_me

CycleDone == lastCycle.chat # NoChat /\ lpc # "bcast_new"

C40_PeerMessageGetsTask ==
    (CycleDone /\ lastCycle.tracked
        /\ IsPeerMessage(lastCycle.hist[Len(lastCycle.hist)])) =>
    \E i \in DOMAIN rtask :
        /\ rtask[i].chat = lastCycle.chat
        /\ lastCycle.hist[Len(lastCycle.hist)] \in rtask[i].trigger

====
